---- MODULE Spec2Model ----
(***************************************************************************)
(* mineswept-x11: a minesweeper that speaks the X11 wire protocol itself.  *)
(* The model follows src/src/main.rs (the startup sequence),               *)
(* src/src/x11comm.rs (handshake, resource ids, request encoders) and      *)
(* src/src/game.rs (the scene, the event loop and the game rules).         *)
(*                                                                         *)
(* Bytes are numbers 0..255, a buffer is a sequence of bytes.  A           *)
(* #[repr(C, packed)] struct is a layout: the sequence of its fields'      *)
(* <<name, width>>; its memory image is the concatenation of the fields in *)
(* the target's byte order, taken little-endian (x86-64, aarch64), which   *)
(* is also the byte order x11_handshake announces to the server.           *)
(* Values of u32 fields stay below 2^31 in every input the model draws.    *)
(***************************************************************************)
EXTENDS Integers, Sequences, FiniteSets, TLC

(***************************************************************************)
(* Bounds of the model.  src/src/config.rs is not among the sources: the   *)
(* four ENTITIES_ constants are u16 constants of the program whose values  *)
(* are taken small here.                                                   *)
(***************************************************************************)
ENTITIES_COLUMN_COUNT == 2
ENTITIES_ROW_COUNT == 2
ENTITIES_WIDTH == 2
ENTITIES_HEIGHT == 2
\* pixmap formats a handshake response body lists: 0..MaxFormats
MaxFormats == 2
MaxMines == 1
\* vendor-string lengths of the replies of HandshakeSpec: 0..MaxVendorLength
MaxVendorLength == 8
\* the longest of the short images handed to x11_put_image on its own
MaxPayload == 8
\* the most records of a credential file
MaxRecords == 2
\* how many bytes of a buffer the log of a direct call keeps
LoggedBytes == 32

U8 == 256
U16 == 65536

CellCount == ENTITIES_COLUMN_COUNT * ENTITIES_ROW_COUNT

(***************************************************************************)
(* Packed structs and their memory image                                   *)
(***************************************************************************)
RECURSIVE size_of(_)
size_of(layout) ==
  IF layout = <<>> THEN 0 ELSE Head(layout)[2] + size_of(Tail(layout))

FieldIndex(layout, name) ==
  CHOOSE i \in 1..Len(layout) : layout[i][1] = name

OffsetOf(layout, name) ==
  size_of(SubSeq(layout, 1, FieldIndex(layout, name) - 1))

WidthOf(layout, name) == layout[FieldIndex(layout, name)][2]

FieldNames(layout) == { layout[i][1] : i \in 1..Len(layout) }

RECURSIVE WriteLE(_, _)
WriteLE(v, w) ==
  IF w = 0 THEN <<>> ELSE <<v % U8>> \o WriteLE(v \div U8, w - 1)

RECURSIVE ReadLE(_, _, _)
ReadLE(buf, off, w) ==
  IF w = 0 THEN 0 ELSE buf[off + 1] + U8 * ReadLE(buf, off + 1, w - 1)

\* the memory image of a packed struct value (from_raw_parts on &request)
RECURSIVE Pack(_, _)
Pack(layout, vals) ==
  IF layout = <<>> THEN <<>>
  ELSE WriteLE(vals[Head(layout)[1]], Head(layout)[2]) \o Pack(Tail(layout), vals)

\* a packed struct value read back from its memory image (copy_from_slice,
\* read_exact into from_raw_parts_mut, transmute); a field wider than 8 bytes
\* is a byte array ([u8; 31])
Unpack(layout, buf) ==
  [n \in FieldNames(layout) |->
     IF WidthOf(layout, n) <= 8
     THEN ReadLE(buf, OffsetOf(layout, n), WidthOf(layout, n))
     ELSE SubSeq(buf, OffsetOf(layout, n) + 1,
                 OffsetOf(layout, n) + WidthOf(layout, n))]

\* one field of a packed struct read from its memory image
Field(layout, buf, name) ==
  ReadLE(buf, OffsetOf(layout, name), WidthOf(layout, name))

Zeros(n) == [i \in 1..n |-> 0]

(***************************************************************************)
(* Bit operations on unsigned words                                        *)
(***************************************************************************)
RECURSIVE BitAnd(_, _)
BitAnd(a, b) ==
  IF a = 0 \/ b = 0 THEN 0
  ELSE (a % 2) * (b % 2) + 2 * BitAnd(a \div 2, b \div 2)

RECURSIVE BitOr(_, _)
BitOr(a, b) ==
  IF a = 0 THEN b
  ELSE IF b = 0 THEN a
  ELSE (IF a % 2 = 1 \/ b % 2 = 1 THEN 1 ELSE 0) + 2 * BitOr(a \div 2, b \div 2)

\* a & !m
RECURSIVE BitAndNot(_, _)
BitAndNot(a, m) ==
  IF a = 0 THEN 0
  ELSE (a % 2) * (1 - (m % 2)) + 2 * BitAndNot(a \div 2, m \div 2)

(***************************************************************************)
(* x11comm.rs: constants and wire layouts                                  *)
(***************************************************************************)
AUTH_ENTRY_FAMILY_LOCAL == 1

\* "MIT-MAGIC-COOKIE-1" as bytes
AUTH_ENTRY_MAGIC_COOKIE ==
  <<77, 73, 84, 45, 77, 65, 71, 73, 67, 45, 67, 79, 79, 75, 73, 69, 45, 49>>

\* size_of::<AuthToken>()
AuthTokenSize == 16

Screen ==
  << <<"id", 4>>, <<"colormap", 4>>, <<"white", 4>>, <<"black", 4>>,
     <<"input_mask", 4>>, <<"width", 2>>, <<"height", 2>>, <<"width_mm", 2>>,
     <<"height_mm", 2>>, <<"maps_min", 2>>, <<"maps_max", 2>>,
     <<"root_visual_id", 4>>, <<"backing_store", 1>>, <<"save_unders", 1>>,
     <<"root_depth", 1>>, <<"depths_count", 1>> >>

HandshakeRequest ==
  << <<"endianness", 1>>, <<"pad1", 1>>, <<"major_version", 2>>,
     <<"minor_version", 2>>, <<"authorization_len", 2>>,
     <<"authorization_data_len", 2>>, <<"pad2", 2>> >>

StaticResponse ==
  << <<"success", 1>>, <<"pad1", 1>>, <<"major_version", 2>>,
     <<"minor_version", 2>>, <<"length", 2>> >>

DynamicResponse ==
  << <<"release_number", 4>>, <<"resource_id_base", 4>>,
     <<"resource_id_mask", 4>>, <<"motion_buffer_size", 4>>,
     <<"vendor_length", 2>>, <<"maximum_request_length", 2>>,
     <<"screens_in_root_count", 1>>, <<"formats_count", 1>>,
     <<"image_byte_order", 1>>, <<"bitmap_format_bit_order", 1>>,
     <<"bitmap_format_scanline_unit", 1>>, <<"bitmap_format_scanline_pad", 1>>,
     <<"min_keycode", 1>>, <<"max_keycode", 1>>, <<"pad2", 4>> >>

(***************************************************************************)
(* x11comm.rs: the other request layouts                                   *)
(***************************************************************************)
GraphicalContextRequest ==
  << <<"opcode", 1>>, <<"pad1", 1>>, <<"length", 2>>, <<"id", 4>>,
     <<"drawable", 4>>, <<"bitmask", 4>>, <<"value1", 4>> >>

CreateWindowRequest ==
  << <<"opcode", 1>>, <<"depth", 1>>, <<"request_length", 2>>,
     <<"window_id", 4>>, <<"parent_id", 4>>, <<"x", 2>>, <<"y", 2>>,
     <<"width", 2>>, <<"height", 2>>, <<"border_width", 2>>, <<"class", 2>>,
     <<"root_visual_id", 4>>, <<"bitmask", 4>>, <<"value1", 4>>,
     <<"value2", 4>> >>

MapWindowRequest ==
  << <<"opcode", 1>>, <<"pad1", 1>>, <<"request_length", 2>>,
     <<"window_id", 4>> >>

CreatePixmapRequest ==
  << <<"opcode", 1>>, <<"depth", 1>>, <<"request_length", 2>>,
     <<"pixmap_id", 4>>, <<"drawable_id", 4>>, <<"width", 2>>,
     <<"height", 2>> >>

PutImageRequest ==
  << <<"opcode", 1>>, <<"format", 1>>, <<"request_length", 2>>,
     <<"drawable_id", 4>>, <<"gc_id", 4>>, <<"width", 2>>, <<"height", 2>>,
     <<"dst_x", 2>>, <<"dst_y", 2>>, <<"left_pad", 1>>, <<"depth", 1>>,
     <<"pad1", 2>> >>

CopyAreaRequest ==
  << <<"opcode", 1>>, <<"pad1", 1>>, <<"request_length", 2>>,
     <<"src_id", 4>>, <<"dst_id", 4>>, <<"gc_id", 4>>, <<"src_x", 2>>,
     <<"src_y", 2>>, <<"dst_x", 2>>, <<"dst_y", 2>>, <<"width", 2>>,
     <<"height", 2>> >>

(***************************************************************************)
(* Stream operations as they are logged: one entry per write_all or        *)
(* read_exact call.  A write hands over a buffer `value`: raw bytes        *)
(* (layout "") or a packed struct whose memory image is written (layout:   *)
(* the struct's name).  A read asks for n bytes and `value` is what        *)
(* arrived.  ok: the call returned Ok; err: the kind of error otherwise.   *)
(***************************************************************************)
LayoutNamed(name) ==
  CASE name = "HandshakeRequest" -> HandshakeRequest
    [] name = "GraphicalContextRequest" -> GraphicalContextRequest
    [] name = "CreateWindowRequest" -> CreateWindowRequest
    [] name = "MapWindowRequest" -> MapWindowRequest
    [] name = "CreatePixmapRequest" -> CreatePixmapRequest
    [] name = "PutImageRequest" -> PutImageRequest
    [] name = "CopyAreaRequest" -> CopyAreaRequest

Buffer(what, bytes) == [what |-> what, layout |-> "", value |-> bytes]
Struct(what, layout, value) == [what |-> what, layout |-> layout, value |-> value]

\* the bytes of a buffer handed to write_all, or received by read_exact
Image(e) ==
  IF e.layout = "" THEN e.value ELSE Pack(LayoutNamed(e.layout), e.value)

WriteOp(w, ok) ==
  [op |-> "write", what |-> w.what, layout |-> w.layout, value |-> w.value,
   ok |-> ok, err |-> IF ok THEN "none" ELSE "Other"]

ReadOp(what, n, bytes, err) ==
  [op |-> "read", what |-> what, layout |-> "", n |-> n, value |-> bytes,
   ok |-> (err = "none"), err |-> err]

(***************************************************************************)
(* x11comm.rs: the credential file.  A cursor is the count of bytes read;  *)
(* -1 once a read has failed, which `?` hands on to the caller.            *)
(***************************************************************************)
\* read_u16::<LittleEndian> or ::<BigEndian> at the cursor
read_u16(data, pos, endian) ==
  IF pos < 0 \/ pos + 2 > Len(data)
  THEN [pos |-> -1, value |-> 0]
  ELSE [pos |-> pos + 2,
        value |-> IF endian = "LittleEndian"
                  THEN data[pos + 1] + 256 * data[pos + 2]
                  ELSE 256 * data[pos + 1] + data[pos + 2]]

\* a big-endian u16 length, then read_exact of as many bytes
read_counted(data, pos) ==
  LET len == read_u16(data, pos, "BigEndian")
  IN  IF len.pos < 0 \/ len.pos + len.value > Len(data)
      THEN [pos |-> -1, bytes |-> <<>>]
      ELSE [pos |-> len.pos + len.value,
            bytes |-> SubSeq(data, len.pos + 1, len.pos + len.value)]

\* String::from_utf8_lossy on ASCII bytes and on bytes no UTF-8 sequence
\* holds (0xF8..0xFF): each of the latter becomes U+FFFD
from_utf8_lossy(bytes) ==
  [i \in 1..Len(bytes) |-> IF bytes[i] < 128 THEN bytes[i] ELSE 65533]

read_x11_auth_entry(data, pos) ==
  LET family == read_u16(data, pos, "LittleEndian")
      address == read_counted(data, family.pos)
      display_number == read_counted(data, address.pos)
      auth_name == read_counted(data, display_number.pos)
      auth_data == read_counted(data, auth_name.pos)
  IN  [pos |-> auth_data.pos,
       entry |-> [family |-> family.value,
                  address |-> address.bytes,
                  display_number |-> from_utf8_lossy(display_number.bytes),
                  auth_name |-> from_utf8_lossy(auth_name.bytes),
                  auth_data |-> auth_data.bytes]]

\* a variant: the length of the auth data is not looked at
auth_entry_is_token_of_any_length(auth_entry) ==
  /\ auth_entry.family = AUTH_ENTRY_FAMILY_LOCAL
  /\ auth_entry.auth_name = AUTH_ENTRY_MAGIC_COOKIE

\* the condition of the loop body, lines 212-215
auth_entry_is_token(auth_entry) ==
  /\ auth_entry.family = AUTH_ENTRY_FAMILY_LOCAL
  /\ auth_entry.auth_name = AUTH_ENTRY_MAGIC_COOKIE
  /\ Len(auth_entry.auth_data) = AuthTokenSize

\* the while-let loop from the cursor on: it ends at the first entry that
\* cannot be read and returns at the first that is a token
RECURSIVE scan_auth_entries(_, _)
scan_auth_entries(data, pos) ==
  LET read == read_x11_auth_entry(data, pos)
  IN  IF read.pos < 0 THEN [result |-> "NotFound", token |-> <<>>]
      ELSE IF auth_entry_is_token(read.entry)
           THEN [result |-> "ok", token |-> read.entry.auth_data]
           ELSE scan_auth_entries(data, read.pos)

\* file.env: "ok"; "unreadable", fs::read fails; "unset", neither XAUTHORITY
\* nor HOME is set
load_x11_auth_token(file) ==
  CASE file.env = "unset" -> [result |-> "panic_expect", token |-> <<>>]
    [] file.env = "unreadable" -> [result |-> "Other", token |-> <<>>]
    [] OTHER -> scan_auth_entries(file.data, 0)

(***************************************************************************)
(* x11comm.rs: round_up_4, next_x11_id                                     *)
(***************************************************************************)
\* A u32 in full width, as its two 16-bit halves: TLC's integers end at
\* 2^31 - 1, the program's at 2^32 - 1.
ToWord(n) == [hi |-> n \div U16, lo |-> n % U16]
FromWord(w) == w.hi * U16 + w.lo

WordAnd(a, b) == [hi |-> BitAnd(a.hi, b.hi), lo |-> BitAnd(a.lo, b.lo)]
WordOr(a, b) == [hi |-> BitOr(a.hi, b.hi), lo |-> BitOr(a.lo, b.lo)]
WordAndNot(a, m) == [hi |-> BitAndNot(a.hi, m.hi), lo |-> BitAndNot(a.lo, m.lo)]

\* a + b in 32 bits: the sum modulo 2^32, and whether it passed 2^32 - 1
WordAdd(a, b) ==
  [value |-> [hi |-> (a.hi + b.hi + (a.lo + b.lo) \div U16) % U16,
              lo |-> (a.lo + b.lo) % U16],
   carry |-> (a.hi + b.hi + (a.lo + b.lo) \div U16) >= U16]

\* The result of u32 arithmetic whose last addition is `sum`: a build with
\* overflow checks panics on a carry, one without keeps the wrapped value.
Checked(sum, overflow_checks, value) ==
  IF sum.carry /\ overflow_checks
  THEN [panic |-> "panic_overflow", value |-> sum.value]
  ELSE [panic |-> "none", value |-> value]

\* a variant: n & !3: n rounded down
round_up_4_u32_down(n, overflow_checks) ==
  [panic |-> "none", value |-> WordAndNot(n, ToWord(3))]

\* (n + 3) & !3 on a u32
round_up_4_u32(n, overflow_checks) ==
  Checked(WordAdd(n, ToWord(3)), overflow_checks,
          WordAndNot(WordAdd(n, ToWord(3)).value, ToWord(3)))

\* round_up_4 where the callers' n is far from 2^32 (a u16 vendor length, the
\* length of a sprite): the addition cannot carry
round_up_4(n) == FromWord(round_up_4_u32(ToWord(n), TRUE).value)

\* 1 + ((info.resource_id_mask & current_id) | info.resource_id_base) on u32s
next_x11_id_u32(current_id, info, overflow_checks) ==
  Checked(WordAdd(ToWord(1),
                  WordOr(WordAnd(info.resource_id_mask, current_id),
                         info.resource_id_base)),
          overflow_checks,
          WordAdd(ToWord(1),
                  WordOr(WordAnd(info.resource_id_mask, current_id),
                         info.resource_id_base)).value)

\* a variant: the id does not depend on the previous one
next_x11_id_base_only(current_id, info) == 1 + info.resource_id_base

\* next_x11_id on the ids of a server whose base and mask are below 2^31 - 1
next_x11_id(current_id, info) ==
  FromWord(next_x11_id_u32(ToWord(current_id),
                           [resource_id_mask |-> ToWord(info.resource_id_mask),
                            resource_id_base |-> ToWord(info.resource_id_base)],
                           TRUE).value)

(***************************************************************************)
(* x11comm.rs: x11_handshake                                               *)
(***************************************************************************)
handshake_request ==
  [endianness |-> 108, pad1 |-> 0, major_version |-> 11, minor_version |-> 0,
   authorization_len |-> Len(AUTH_ENTRY_MAGIC_COOKIE),
   authorization_data_len |-> AuthTokenSize, pad2 |-> 0]

\* a variant that sends the token right after the 18 bytes of the name
handshake_padding_none == Zeros(0)

handshake_padding == Zeros(2)

\* a variant that sends the token before the padding of the name
handshake_writes_token_first(auth_token) ==
  << Struct("header", "HandshakeRequest", handshake_request),
     Buffer("auth_name", AUTH_ENTRY_MAGIC_COOKIE),
     Buffer("auth_token", auth_token),
     Buffer("padding", handshake_padding) >>

\* the four write_all calls, in the order the code issues them
handshake_writes(auth_token) ==
  << Struct("header", "HandshakeRequest", handshake_request),
     Buffer("auth_name", AUTH_ENTRY_MAGIC_COOKIE),
     Buffer("padding", handshake_padding),
     Buffer("auth_token", auth_token) >>

\* write_all(..)? over a sequence of buffers: the wfail-th call fails (0: none
\* does) and returns the error, the calls after it are not made
WriteAll(writes, wfail) ==
  [i \in 1..(IF wfail = 0 THEN Len(writes) ELSE wfail) |->
     WriteOp(writes[i], i # wfail)]

\* read_exact of n bytes from a stream that holds `data` and then ends as `kind`
\* says: "ok" (data holds n bytes or more), "eof" or "err" (after fewer than n)
ReadExact(what, n, data, kind) ==
  IF kind = "ok"
  THEN ReadOp(what, n, SubSeq(data, 1, n), "none")
  ELSE ReadOp(what, n, IF Len(data) < n THEN data ELSE <<>>,
              IF kind = "eof" THEN "UnexpectedEof" ELSE "Other")

\* a variant that takes every nonzero success byte for "accepted"
handshake_accepted_nonzero(static_response) == static_response.success # 0

\* assert_eq!(static_response.success, 1)
handshake_accepted(static_response) == static_response.success = 1

\* a variant that rounds the vendor length down to a multiple of 4 (n & !3)
screen_offset_rounded_down(dynamic_response) ==
  size_of(DynamicResponse)
    + BitAndNot(dynamic_response.vendor_length, 3)
    + 8 * dynamic_response.formats_count

screen_offset(dynamic_response) ==
  LET vendor_length_padded == round_up_4(dynamic_response.vendor_length)
      formats_length == 8 * dynamic_response.formats_count
  IN  size_of(DynamicResponse) + vendor_length_padded + formats_length

NoConnectionInformation ==
  [root_screen |-> Unpack(Screen, Zeros(size_of(Screen))),
   resource_id_base |-> 0, resource_id_mask |-> 0]

\* lines 265-291: the two slices panic when recv_buf is too short for them
handshake_parse(recv_buf) ==
  IF Len(recv_buf) < size_of(DynamicResponse)
  THEN [result |-> "panic_index", info |-> NoConnectionInformation]
  ELSE
    LET head == SubSeq(recv_buf, 1, size_of(DynamicResponse))
        dynamic_response ==
          [resource_id_base |-> Field(DynamicResponse, head, "resource_id_base"),
           resource_id_mask |-> Field(DynamicResponse, head, "resource_id_mask"),
           vendor_length |-> Field(DynamicResponse, head, "vendor_length"),
           formats_count |-> Field(DynamicResponse, head, "formats_count")]
        off == screen_offset(dynamic_response)
    IN  IF off + size_of(Screen) > Len(recv_buf)
        THEN [result |-> "panic_index", info |-> NoConnectionInformation]
        ELSE [result |-> "ok",
              info |->
                [root_screen |->
                   Unpack(Screen, SubSeq(recv_buf, off + 1, off + size_of(Screen))),
                 resource_id_base |-> dynamic_response.resource_id_base,
                 resource_id_mask |-> dynamic_response.resource_id_mask]]

\* The whole of x11_handshake.  wfail: which of the four writes fails (0: none);
\* r1: how the read of the static response ends and the 8 bytes it yields;
\* data, r2: the bytes that follow on the stream and how the body read ends.
\* result: "ok" (Ok(info)), "err" (Err(e)), "panic_assert", "panic_index".
x11_handshake(auth_token, wfail, r1, static_bytes, r2, data) ==
  LET ws == WriteAll(handshake_writes(auth_token), wfail)
      rd1 == ReadExact("static_response", size_of(StaticResponse), static_bytes, r1)
      static_response ==
        [success |-> Field(StaticResponse, static_bytes, "success"),
         length |-> Field(StaticResponse, static_bytes, "length")]
      rd2 == ReadExact("recv_buf", static_response.length * 4, data, r2)
      parsed == handshake_parse(rd2.value)
  IN  IF wfail # 0
      THEN [result |-> "err", io |-> ws, info |-> NoConnectionInformation]
      ELSE IF ~rd1.ok
      THEN [result |-> "err", io |-> ws \o <<rd1>>, info |-> NoConnectionInformation]
      ELSE IF ~handshake_accepted(static_response)
      THEN [result |-> "panic_assert", io |-> ws \o <<rd1>>,
            info |-> NoConnectionInformation]
      ELSE IF ~rd2.ok
      THEN [result |-> "err", io |-> ws \o <<rd1, rd2>>,
            info |-> NoConnectionInformation]
      ELSE [result |-> parsed.result, io |-> ws \o <<rd1, rd2>>,
            info |-> parsed.info]


(***************************************************************************)
(* x11comm.rs: the request encoders.  Each yields the buffers it hands to  *)
(* write_all, in order.                                                    *)
(***************************************************************************)
x11_create_graphical_context(gc_id, root_id) ==
  << Struct("create_gc", "GraphicalContextRequest",
                  [opcode |-> 55, pad1 |-> 0, length |-> 5, id |-> gc_id,
                   drawable |-> root_id, bitmask |-> 8, value1 |-> 65280]) >>

x11_create_window(window_id, parent_id, x, y, width, height, root_visual_id) ==
  << Struct("create_window", "CreateWindowRequest",
                  [opcode |-> 1, depth |-> 24, request_length |-> 8 + 2,
                   window_id |-> window_id, parent_id |-> parent_id,
                   x |-> x, y |-> y, width |-> width, height |-> height,
                   border_width |-> 0, class |-> 1,
                   root_visual_id |-> root_visual_id,
                   \* FLAG_WIN_BG_PIXEL | FLAG_WIN_EVENT
                   bitmask |-> BitOr(2, 2048),
                   value1 |-> 16777088,
                   \* exposure | button release | button press | key press | key release
                   value2 |-> BitOr(32768, BitOr(8, BitOr(4, BitOr(1, 2))))]) >>

x11_map_window(window_id) ==
  << Struct("map_window", "MapWindowRequest",
                  [opcode |-> 8, pad1 |-> 0, request_length |-> 2,
                   window_id |-> window_id]) >>

\* a variant: the pixmap is created on itself, not on the window
x11_create_pixmap_on_itself(window_id, pixmap_id, width, height, depth) ==
  << Struct("create_pixmap", "CreatePixmapRequest",
            [opcode |-> 53, depth |-> depth, request_length |-> 4,
             pixmap_id |-> pixmap_id, drawable_id |-> pixmap_id,
             width |-> width, height |-> height]) >>

x11_create_pixmap(window_id, pixmap_id, width, height, depth) ==
  << Struct("create_pixmap", "CreatePixmapRequest",
                  [opcode |-> 53, depth |-> depth, request_length |-> 4,
                   pixmap_id |-> pixmap_id, drawable_id |-> window_id,
                   width |-> width, height |-> height]) >>

\* a variant: the image is not padded to a multiple of 4 bytes
x11_put_image_unpadded(window_id, drawable_id, gc_id, width, height, dst_x, dst_y, depth, data) ==
  << Struct("put_image", "PutImageRequest",
                  [opcode |-> 72, format |-> 2,
                   request_length |-> (6 + round_up_4(Len(data)) \div 4) % U16,
                   drawable_id |-> drawable_id, gc_id |-> gc_id,
                   width |-> width, height |-> height,
                   dst_x |-> dst_x, dst_y |-> dst_y,
                   left_pad |-> 0, depth |-> depth, pad1 |-> 0]),
     Buffer("put_image_data", data),
     Buffer("put_image_padding", <<>>) >>

x11_put_image(window_id, drawable_id, gc_id, width, height, dst_x, dst_y, depth, data) ==
  LET data_length_padded == round_up_4(Len(data))
      padding_len == data_length_padded - Len(data)
  IN  << Struct("put_image", "PutImageRequest",
                      [opcode |-> 72, format |-> 2,
                       request_length |-> (6 + data_length_padded \div 4) % U16,
                       drawable_id |-> drawable_id, gc_id |-> gc_id,
                       width |-> width, height |-> height,
                       dst_x |-> dst_x, dst_y |-> dst_y,
                       left_pad |-> 0, depth |-> depth, pad1 |-> 0]),
         Buffer("put_image_data", data),
         Buffer("put_image_padding", Zeros(padding_len)) >>

x11_copy_area(src_id, dst_id, gc_id, src_x, src_y, dst_x, dst_y, width, height) ==
  << Struct("copy_area", "CopyAreaRequest",
                  [opcode |-> 62, pad1 |-> 0, request_length |-> 7,
                   src_id |-> src_id, dst_id |-> dst_id, gc_id |-> gc_id,
                   src_x |-> src_x, src_y |-> src_y,
                   dst_x |-> dst_x, dst_y |-> dst_y,
                   width |-> width, height |-> height]) >>

(***************************************************************************)
(* utils.rs                                                                *)
(***************************************************************************)
\* the assert on the length is the caller's to check first: see load_sprite
rgba_to_bgra(rgba) ==
  [i \in 1..Len(rgba) |->
     CASE i % 4 = 1 -> rgba[i + 2]
       [] i % 4 = 2 -> rgba[i]
       [] i % 4 = 3 -> rgba[i - 2]
       [] OTHER -> 0]

(***************************************************************************)
(* game.rs: the scene.  Vectors are functions on 0..len-1, as indexed in   *)
(* the code.                                                               *)
(***************************************************************************)
UncoveredKinds ==
  <<"Uncovered0", "Uncovered1", "Uncovered2", "Uncovered3", "Uncovered4",
    "Uncovered5", "Uncovered6", "Uncovered7", "Uncovered8">>

EntityKind ==
  {"Covered", "Flagged", "MineExploded", "MineIdle"}
    \cup { UncoveredKinds[k] : k \in 1..9 }

SceneState == {"Uninitialized", "Initializing", "Ready", "Won", "Lost"}

\* the sprite of each kind: a partial map, as the HashMap is
get_asset_coordinates ==
  [k \in EntityKind |->
     CASE k = "Covered" -> [x |-> 0, y |-> 38]
       [] k = "Flagged" -> [x |-> 16, y |-> 38]
       [] k = "MineExploded" -> [x |-> 32, y |-> 40]
       [] k = "MineIdle" -> [x |-> 64, y |-> 40]
       [] OTHER ->
            [x |-> ((CHOOSE n \in 1..9 : UncoveredKinds[n] = k) - 1) * 16,
             y |-> 22]]

idx_to_row_column(idx) ==
  [row |-> idx \div ENTITIES_COLUMN_COUNT, column |-> idx % ENTITIES_COLUMN_COUNT]

\* a variant: a scene that does not keep the ids it is given
Scene_new_without_ids(window_id, gc_id, sprite_pixmap_id) ==
  [state |-> "Uninitialized", window_id |-> 0, gc_id |-> 0,
   sprite_pixmap_id |-> 0,
   displayed_entities |-> [i \in 0..(CellCount - 1) |-> "Covered"],
   mines |-> [i \in 0..(CellCount - 1) |-> FALSE]]

Scene_new(window_id, gc_id, sprite_pixmap_id) ==
  [state |-> "Uninitialized", window_id |-> window_id, gc_id |-> gc_id,
   sprite_pixmap_id |-> sprite_pixmap_id,
   displayed_entities |-> [i \in 0..(CellCount - 1) |-> "Covered"],
   mines |-> [i \in 0..(CellCount - 1) |-> FALSE]]

\* rng: the vector of the gen_bool(0.1) draws, any vector of booleans
reset(scene, rng) ==
  [scene EXCEPT
     !.displayed_entities = [i \in DOMAIN scene.displayed_entities |-> "Covered"],
     !.mines = [i \in DOMAIN scene.mines |-> rng[i]]]

\* a variant: a render that draws every cell from the sprite of Covered
render_covered(scene) ==
  [i \in 1..Cardinality(DOMAIN scene.displayed_entities) |->
     x11_copy_area(scene.sprite_pixmap_id, scene.window_id, scene.gc_id,
                   get_asset_coordinates["Covered"].x,
                   get_asset_coordinates["Covered"].y,
                   (idx_to_row_column(i - 1).column * ENTITIES_WIDTH) % U16,
                   (idx_to_row_column(i - 1).row * ENTITIES_HEIGHT) % U16,
                   ENTITIES_WIDTH, ENTITIES_HEIGHT)[1]]

\* the copy-area requests of one render, in the order they are written
RECURSIVE render_from(_, _)
render_from(scene, i) ==
  IF i \notin DOMAIN scene.displayed_entities THEN <<>>
  ELSE
    LET entity == scene.displayed_entities[i]
        rc == idx_to_row_column(i)
        one ==
          IF entity \in DOMAIN get_asset_coordinates
          THEN x11_copy_area(scene.sprite_pixmap_id, scene.window_id, scene.gc_id,
                             get_asset_coordinates[entity].x,
                             get_asset_coordinates[entity].y,
                             (rc.column * ENTITIES_WIDTH) % U16,
                             (rc.row * ENTITIES_HEIGHT) % U16,
                             ENTITIES_WIDTH, ENTITIES_HEIGHT)
          ELSE <<>>
    IN  one \o render_from(scene, i + 1)

render(scene) == render_from(scene, 0)

\* row * ENTITIES_COLUMN_COUNT + column on u16: with overflow checks (a debug
\* build) an overflow panics, without them (a release build) the value wraps
row_column_to_idx(row, column, overflow_checks) ==
  LET v == row * ENTITIES_COLUMN_COUNT + column
  IN  IF v >= U16 /\ overflow_checks
      THEN [panic |-> "panic_overflow", idx |-> 0]
      ELSE [panic |-> "none", idx |-> v % U16]

locate_entity_by_coordinate(win_x, win_y, overflow_checks) ==
  LET column == win_x \div ENTITIES_WIDTH
      row == win_y \div ENTITIES_HEIGHT
      idx == row_column_to_idx(row % U16, column % U16, overflow_checks)
  IN  [panic |-> idx.panic, idx |-> idx.idx, row |-> row, column |-> column]

\* a variant: the four diagonal neighbours are not counted
count_mines_around_cell_orthogonal(mines, row, column) ==
  Cardinality(
    { d \in {<<-1, 0>>, <<1, 0>>, <<0, -1>>, <<0, 1>>} :
        /\ row + d[1] >= 0 /\ row + d[1] < ENTITIES_ROW_COUNT
        /\ column + d[2] >= 0 /\ column + d[2] < ENTITIES_COLUMN_COUNT
        /\ mines[(row + d[1]) * ENTITIES_COLUMN_COUNT + column + d[2]] })

\* the cells around (row, column) are inside the board, whose cell count is a
\* u16 (Scene::new computes it), so row_column_to_idx cannot overflow here
count_mines_around_cell(mines, row, column) ==
  Cardinality(
    { d \in (-1..1) \X (-1..1) :
        /\ d # <<0, 0>>
        /\ row + d[1] >= 0 /\ row + d[1] < ENTITIES_ROW_COUNT
        /\ column + d[2] >= 0 /\ column + d[2] < ENTITIES_COLUMN_COUNT
        /\ mines[row_column_to_idx(row + d[1], column + d[2], FALSE).idx] })

\* match mines_around_count { 0 => Uncovered0, ... 8 => Uncovered8 }
uncovered_kind(mines_around_count) == UncoveredKinds[mines_around_count + 1]

\* d: [displayed_entities, panic, calls].  A panic ends the traversal where it
\* is; calls counts the invocations of uncover_cells_flood_fill made so far.
\* flood_cell is the body of uncover_cells_flood_fill once i is computed,
\* flood_around what follows the update of cell i.
\* The recursion of uncover_cells_flood_fill, run with its call stack made
\* explicit: `pending` holds the calls still to make, the innermost first.  A
\* call that uncovers a cell with no mine around puts its eight guarded calls,
\* in the order of lines 272-280, before the calls its callers still owe.
RECURSIVE flood_run(_, _, _, _)

\* a variant: the four diagonal calls of lines 277-280 are not made
flood_calls_orthogonal(row, column) ==
  LET last_row == ENTITIES_ROW_COUNT - 1
      last_column == ENTITIES_COLUMN_COUNT - 1
      call(cond, r, c) == [cond |-> cond, row |-> r, column |-> c]
  IN  SelectSeq(
        << call(row > 0, row - 1, column),
           call(column < last_column, row, column + 1),
           call(row < last_row, row + 1, column),
           call(column > 0, row, column - 1) >>,
        LAMBDA c : c.cond)

\* the recursive calls of lines 272-280 whose guards hold, in order
flood_calls(row, column) ==
  LET last_row == ENTITIES_ROW_COUNT - 1
      last_column == ENTITIES_COLUMN_COUNT - 1
      call(cond, r, c) == [cond |-> cond, row |-> r, column |-> c]
  IN  SelectSeq(
        << call(row > 0, row - 1, column),
           call(column < last_column, row, column + 1),
           call(row < last_row, row + 1, column),
           call(column > 0, row, column - 1),
           call(row > 0 /\ column > 0, row - 1, column - 1),
           call(row > 0 /\ column < last_column, row - 1, column + 1),
           call(row < last_row /\ column > 0, row + 1, column - 1),
           call(row < last_row /\ column < last_column, row + 1, column + 1) >>,
        LAMBDA c : c.cond)

\* lines 256-281: the cell is uncovered; its neighbours follow when no mine
\* is around it
flood_uncover(d, idx, mines_around_count, row, column, rest, mines, overflow_checks) ==
  flood_run([d EXCEPT !.displayed_entities[idx] = uncovered_kind(mines_around_count)],
            (IF mines_around_count = 0 THEN flood_calls(row, column) ELSE <<>>)
              \o rest,
            mines, overflow_checks)

\* lines 250-254 of one call: the index, the two early returns
flood_cell(d, i, row, column, rest, mines, overflow_checks) ==
  IF i.panic # "none" THEN [d EXCEPT !.panic = i.panic]
  ELSE IF i.idx \notin DOMAIN mines THEN [d EXCEPT !.panic = "panic_index"]
  ELSE IF mines[i.idx] \/ d.displayed_entities[i.idx] # "Covered"
  THEN flood_run(d, rest, mines, overflow_checks)
  ELSE flood_uncover(d, i.idx, count_mines_around_cell(mines, row, column),
                     row, column, rest, mines, overflow_checks)

flood_next(d, call, rest, mines, overflow_checks) ==
  flood_cell([d EXCEPT !.calls = @ + 1],
             row_column_to_idx(call.row % U16, call.column % U16, overflow_checks),
             call.row, call.column, rest, mines, overflow_checks)

flood_run(d, pending, mines, overflow_checks) ==
  IF pending = <<>> THEN d
  ELSE flood_next(d, Head(pending), Tail(pending), mines, overflow_checks)

uncover_cells_flood_fill(d, mines, row, column, overflow_checks) ==
  flood_run(d, <<[cond |-> TRUE, row |-> row, column |-> column]>>,
            mines, overflow_checks)

uncover_all_cells(displayed_entities, mines, mine_type) ==
  [i \in DOMAIN displayed_entities |->
     IF mines[i] THEN mine_type
     ELSE IF displayed_entities[i] = "Covered"
     THEN uncovered_kind(count_mines_around_cell(
            mines, idx_to_row_column(i).row, idx_to_row_column(i).column))
     ELSE displayed_entities[i]]

count_remaining_goals(displayed_entities, mines) ==
  Cardinality({ i \in DOMAIN displayed_entities :
                  displayed_entities[i] = "Covered" /\ ~mines[i] })

\* on_cell_clicked, lines 230-235: d is what uncover_cells_flood_fill left
left_click_uncovered(scene, d) ==
  IF d.panic # "none"
  THEN [scene |-> [scene EXCEPT !.displayed_entities = d.displayed_entities],
        panic |-> d.panic]
  ELSE IF count_remaining_goals(d.displayed_entities, scene.mines) = 0
  THEN [scene |->
          [scene EXCEPT
             !.state = "Won",
             !.displayed_entities =
               uncover_all_cells(d.displayed_entities, scene.mines, "MineIdle")],
        panic |-> "none"]
  ELSE [scene |-> [scene EXCEPT !.displayed_entities = d.displayed_entities],
        panic |-> "none"]

\* on_cell_clicked, lines 217-246: loc is what locate_entity_by_coordinate found
cell_clicked(scene, loc, button, overflow_checks) ==
  LET idx == loc.idx
      shown == scene.displayed_entities
  IN  IF loc.panic # "none" THEN [scene |-> scene, panic |-> loc.panic]
      ELSE IF button = 1 THEN
        IF idx \notin DOMAIN shown THEN [scene |-> scene, panic |-> "panic_index"]
        ELSE IF shown[idx] = "Flagged" THEN [scene |-> scene, panic |-> "none"]
        ELSE IF scene.mines[idx]
        THEN [scene |->
                [scene EXCEPT
                   !.state = "Lost",
                   !.displayed_entities =
                     uncover_all_cells([shown EXCEPT ![idx] = "MineExploded"],
                                       scene.mines, "MineExploded")],
              panic |-> "none"]
        ELSE left_click_uncovered(
               scene,
               uncover_cells_flood_fill(
                 [displayed_entities |-> shown, panic |-> "none", calls |-> 0],
                 scene.mines, loc.row, loc.column, overflow_checks))
      ELSE IF button = 3 THEN
        IF idx \notin DOMAIN shown THEN [scene |-> scene, panic |-> "panic_index"]
        ELSE IF shown[idx] = "Covered"
        THEN [scene |-> [scene EXCEPT !.displayed_entities[idx] = "Flagged"],
              panic |-> "none"]
        ELSE IF shown[idx] = "Flagged"
        THEN [scene |-> [scene EXCEPT !.displayed_entities[idx] = "Covered"],
              panic |-> "none"]
        ELSE [scene |-> scene, panic |-> "none"]
      ELSE [scene |-> scene, panic |-> "none"]

\* yields [scene, panic]: the scene as the call leaves it, and the panic that
\* ended it ("none" when it returned)
on_cell_clicked(scene, x, y, button, overflow_checks) ==
  cell_clicked(scene, locate_entity_by_coordinate(x, y, overflow_checks),
               button, overflow_checks)

(***************************************************************************)
(* game.rs: wait_for_x11_events, one iteration of its loop                 *)
(***************************************************************************)
GenericEvent == << <<"code", 1>>, <<"pad", 31>> >>

KeyReleaseEvent ==
  << <<"code", 1>>, <<"detail", 1>>, <<"sequence_number", 2>>, <<"time", 4>>,
     <<"root_id", 4>>, <<"event", 4>>, <<"child_id", 4>>, <<"root_x", 2>>,
     <<"root_y", 2>>, <<"event_x", 2>>, <<"event_y", 2>>, <<"state", 2>>,
     <<"same_screen", 1>>, <<"pad1", 1>> >>

ButtonReleaseEvent ==
  << <<"code", 1>>, <<"detail", 1>>, <<"seq_number", 2>>, <<"timestamp", 4>>,
     <<"root", 4>>, <<"event", 4>>, <<"child", 4>>, <<"root_x", 2>>,
     <<"root_y", 2>>, <<"event_x", 2>>, <<"event_y", 2>>, <<"state", 2>>,
     <<"same_screen", 1>>, <<"pad1", 1>> >>

EVENT_EXPOSURE == 12
EVENT_KEY_RELEASE == 3
EVENT_BUTTON_RELEASE == 5
KEYCODE_ENTER == 36

Call(fn, args) == [fn |-> fn, args |-> args]

\* an arm of the match that ends with self.render(&mut stream)?
then_render(scene, calls) ==
  [scene |-> scene, calls |-> calls \o <<Call("render", <<>>)>>,
   panic |-> "none", renders |-> TRUE]

\* the ButtonRelease arm once on_cell_clicked has run
after_click(clicked, call) ==
  IF clicked.panic # "none"
  THEN [scene |-> clicked.scene, calls |-> <<call>>, panic |-> clicked.panic,
        renders |-> FALSE]
  ELSE then_render(clicked.scene, <<call>>)

button_release(scene, event_x, event_y, detail, overflow_checks) ==
  after_click(on_cell_clicked(scene, event_x, event_y, detail, overflow_checks),
              Call("on_cell_clicked", <<event_x, event_y, detail>>))

\* Variants of the arms, each with one plausible slip, which the properties
\* below must tell from the arms as written.
\* - every released key restarts the game
key_release_any_key(scene, detail, rng) ==
  then_render(reset(scene, rng), <<Call("reset", <<>>)>>)

\* - an Expose frame is dropped without a redraw
exposure_dropped(scene) ==
  [scene |-> scene, calls |-> <<>>, panic |-> "none", renders |-> FALSE]

\* - a frame of an unknown code redraws the board
ignored_redraws(scene) == then_render(scene, <<>>)

\* the EVENT_EXPOSURE arm
exposure(scene) == then_render(scene, <<>>)

\* the `_ => {}` arm, and a KeyRelease of another key than Enter
ignored(scene) ==
  [scene |-> scene, calls |-> <<>>, panic |-> "none", renders |-> FALSE]

\* the EVENT_KEY_RELEASE arm; rng: the draws of the reset
key_release(scene, detail, rng) ==
  IF detail = KEYCODE_ENTER
  THEN then_render(reset(scene, rng), <<Call("reset", <<>>)>>)
  ELSE ignored(scene)

\* The match on generic_event.code up to the arm's render.  Yields the scene,
\* the calls made (the render included when the arm reaches it), the panic, if
\* any, and whether the arm renders.
dispatch_event(scene, frame, rng, overflow_checks) ==
  LET code == Field(GenericEvent, frame, "code")
  IN  IF code = EVENT_EXPOSURE THEN exposure(scene)
      ELSE IF code = EVENT_KEY_RELEASE THEN
        key_release(scene, Field(KeyReleaseEvent, frame, "detail"), rng)
      ELSE IF code = EVENT_BUTTON_RELEASE THEN
        button_release(scene,
                       Field(ButtonReleaseEvent, frame, "event_x"),
                       Field(ButtonReleaseEvent, frame, "event_y"),
                       Field(ButtonReleaseEvent, frame, "detail"),
                       overflow_checks)
      ELSE ignored(scene)

\* the copy-area requests of the arm's render, none when it has no render
render_writes(arm) == IF arm.renders THEN render(arm.scene) ELSE <<>>

\* self.render(&mut stream)?: x11_copy_area unwraps each write, so the wfail-th
\* write failing (0: none fails) panics there; render itself only returns Ok
render_panic(arm, wfail) ==
  IF arm.panic # "none" THEN arm.panic
  ELSE IF wfail = 0 THEN "none" ELSE "panic_unwrap"

(***************************************************************************)
(* What the environment supplies: the credential file, the X server's     *)
(* bytes, the sprite file, the random draws                                *)
(***************************************************************************)
\* Records of a credential file.  The first two hold a token.  The others: the
\* family bytes 00 00; the family bytes 00 01; the scheme XDM-AUTHORIZATION-1;
\* 15 and 17 bytes of auth data; a scheme name whose last byte is 0xFF.
CredentialRecords ==
  LET cookie == <<77, 73, 84, 45, 77, 65, 71, 73, 67, 45, 67, 79, 79, 75, 73,
                  69, 45, 49>>
      xdm == <<88, 68, 77, 45, 65, 85, 84, 72, 79, 82, 73, 90, 65, 84, 73, 79,
               78, 45, 49>>
      first == [family |-> <<1, 0>>, address |-> <<104>>, display |-> <<48>>,
                name |-> cookie, data |-> [i \in 1..16 |-> 16 + i]]
      other == [family |-> <<1, 0>>, address |-> <<>>, display |-> <<49>>,
                name |-> cookie, data |-> [i \in 1..16 |-> 100 + i]]
  IN  << first, other,
         [other EXCEPT !.family = <<0, 0>>],
         [other EXCEPT !.family = <<0, 1>>],
         [other EXCEPT !.name = xdm],
         [other EXCEPT !.data = [i \in 1..15 |-> 100 + i]],
         [other EXCEPT !.data = [i \in 1..17 |-> 100 + i]],
         [other EXCEPT !.name = [cookie EXCEPT ![18] = 255]] >>

\* a record as the file holds it: the family, then four byte strings, each
\* after its length in two bytes, the high one first
RecordBytes(rec) ==
  rec.family \o <<0, Len(rec.address)>> \o rec.address
    \o <<0, Len(rec.display)>> \o rec.display
    \o <<0, Len(rec.name)>> \o rec.name
    \o <<0, Len(rec.data)>> \o rec.data

\* The credential files: up to MaxRecords records (by their index in
\* CredentialRecords), whole or with the last `cut` bytes missing; and the
\* file that cannot be read, and the environment that names none.
CredentialFiles ==
  LET lists == UNION { [1..n -> 1..Len(CredentialRecords)] : n \in 0..MaxRecords }
  IN  { [env |-> "ok", records |-> l, cut |-> 0] : l \in lists }
        \cup { [env |-> "ok", records |-> l, cut |-> c] :
                 l \in lists \ {<<>>}, c \in {1, 17} }
        \cup { [env |-> e, records |-> <<>>, cut |-> 0] :
                 e \in {"unreadable", "unset"} }

RECURSIVE FileBytes(_, _)
FileBytes(records, cut) ==
  IF records = <<>> THEN <<>>
  ELSE IF Len(records) = 1
       THEN SubSeq(RecordBytes(CredentialRecords[records[1]]), 1,
                   Len(RecordBytes(CredentialRecords[records[1]])) - cut)
       ELSE RecordBytes(CredentialRecords[Head(records)])
              \o FileBytes(Tail(records), cut)

\* The servers: resource-id base and mask, and the root screen each reports.
\* The first two are what X servers send; the handshake takes whatever base and
\* mask the reply holds, so the others report a mask of 0, a mask of one bit,
\* and a base that shares its low bit with the mask.
ServerVariants ==
  << [base |-> 2097152, mask |-> 2097151, root |-> 991, width |-> 1920,
      height |-> 1080, visual |-> 33],
     [base |-> 4194304, mask |-> 4194303, root |-> 657, width |-> 800,
      height |-> 600, visual |-> 71],
     [base |-> 2097152, mask |-> 0, root |-> 991, width |-> 1920,
      height |-> 1080, visual |-> 33],
     [base |-> 2097152, mask |-> 1, root |-> 991, width |-> 1920,
      height |-> 1080, visual |-> 33],
     [base |-> 2097153, mask |-> 3, root |-> 991, width |-> 1920,
      height |-> 1080, visual |-> 33] >>

VendorLengths == {0, 1, 3, 4}

\* the connection setup reply as the X11 protocol lays it out: 8 bytes, then the
\* body: 32 fixed bytes, the vendor padded to 4, 8 bytes per pixmap format, the
\* root screen (40 bytes), its depths
ServerStatic(success, units) ==
  <<success, 0>> \o WriteLE(11, 2) \o WriteLE(0, 2) \o WriteLE(units, 2)

ServerBody(v, f, sv) ==
  LET s == ServerVariants[sv]
  IN  WriteLE(12101004, 4) \o WriteLE(s.base, 4) \o WriteLE(s.mask, 4)
        \o WriteLE(256, 4) \o WriteLE(v, 2) \o WriteLE(65535, 2)
        \o <<1, f, 0, 0, 32, 32, 8, 255>> \o Zeros(4)
        \o [i \in 1..(((v + 3) \div 4) * 4) |-> IF i <= v THEN 64 + i ELSE 0]
        \o [i \in 1..(8 * f) |-> 100 + i]
        \o WriteLE(s.root, 4) \o WriteLE(32, 4) \o WriteLE(16777215, 4)
        \o WriteLE(0, 4) \o WriteLE(16435, 4)
        \o WriteLE(s.width, 2) \o WriteLE(s.height, 2)
        \o WriteLE(508, 2) \o WriteLE(285, 2) \o WriteLE(1, 2) \o WriteLE(1, 2)
        \o WriteLE(s.visual, 4) \o <<0, 0, 24, 1>>
        \o <<24, 0>> \o WriteLE(1, 2) \o Zeros(4)

\* an accepted reply, whole: vendor length v, f pixmap formats, server sv
AcceptedReply(v, f, sv) ==
  [wfail |-> 0, r1 |-> "ok", success |-> 1, r2 |-> "ok",
   v |-> v, f |-> f, sv |-> sv, units |-> Len(ServerBody(v, f, sv)) \div 4]

\* What x11_handshake meets.  units: the length the static response announces.
HandshakeInputs ==
  LET base == AcceptedReply(0, 0, 1)
  IN  { [base EXCEPT !.wfail = w] : w \in 1..4 }
        \cup { [base EXCEPT !.r1 = k] : k \in {"eof", "err"} }
        \cup { [base EXCEPT !.success = c] : c \in {0, 2} }
        \cup { [base EXCEPT !.r2 = k] : k \in {"eof", "err"} }
        \cup { [base EXCEPT !.units = u] : u \in {0, 8} }
        \cup { AcceptedReply(v, f, 1) : v \in VendorLengths, f \in 0..MaxFormats }

\* the accepted replies of every server, vendor length and format count
AcceptedReplies ==
  { AcceptedReply(v, f, sv) :
      v \in 0..MaxVendorLength, f \in 0..MaxFormats,
      sv \in 1..Len(ServerVariants) }

\* resources/img.png decoded: RGBA pixels, or, for the last one, RGB pixels
Sprites ==
  { [width |-> 1, height |-> 1, bytes |-> <<10, 20, 30, 40>>],
    [width |-> 2, height |-> 1, bytes |-> <<10, 20, 30, 40, 50, 60, 70, 80>>],
    [width |-> 1, height |-> 1, bytes |-> <<10, 20, 30>>] }

NoSprite == [width |-> 0, height |-> 0, bytes |-> <<>>]

\* an event as the X11 protocol lays it out (KeyRelease and ButtonRelease share
\* the layout; the other events of the model carry the same filler)
ServerEvent(code, detail, x, y) ==
  <<code, detail>> \o WriteLE(7, 2) \o WriteLE(123456, 4)
    \o WriteLE(991, 4) \o WriteLE(2097154, 4) \o WriteLE(0, 4)
    \o WriteLE((x + 200) % U16, 2) \o WriteLE((y + 300) % U16, 2)
    \o WriteLE(x, 2) \o WriteLE(y, 2)
    \o WriteLE(16, 2) \o <<1, 0>>

\* Window coordinates of a button release.  Inside the board: the last pixel
\* of every cell.  Outside it (the pointer is grabbed while a button is down,
\* so it may be released anywhere): one column past the board, one row past
\* it, the largest u16 in x, and the largest u16 in y one column past the board.
ClickPoints ==
  { <<c * ENTITIES_WIDTH + ENTITIES_WIDTH - 1, r * ENTITIES_HEIGHT + ENTITIES_HEIGHT - 1>> :
      c \in 0..(ENTITIES_COLUMN_COUNT - 1), r \in 0..(ENTITIES_ROW_COUNT - 1) }
    \cup { <<ENTITIES_COLUMN_COUNT * ENTITIES_WIDTH, 0>>,
           <<0, ENTITIES_ROW_COUNT * ENTITIES_HEIGHT>>,
           <<U16 - 1, 0>>,
           <<ENTITIES_COLUMN_COUNT * ENTITIES_WIDTH, U16 - 1>> }

\* where the middle button is released: in the first cell, below the board,
\* and where the row times the column count passes 16 bits
OtherButtonPoints ==
  { <<0, 0>>, <<0, ENTITIES_ROW_COUNT * ENTITIES_HEIGHT>>,
    <<ENTITIES_COLUMN_COUNT * ENTITIES_WIDTH, U16 - 1>> }

\* the frames the server sends: Expose (12), KeyRelease (3) of Return (36) and of
\* another key, ButtonRelease (5), and KeyPress (2), ButtonPress (4) and an
\* unknown code, which the loop has no arm for
Frames ==
  { ServerEvent(12, 36, 0, 0) }
    \cup { ServerEvent(3, d, 0, 0) : d \in {36, 37} }
    \cup { ServerEvent(5, b, p[1], p[2]) : b \in {1, 3}, p \in ClickPoints }
    \cup { ServerEvent(5, 2, p[1], p[2]) : p \in OtherButtonPoints }
    \cup { ServerEvent(2, 36, 0, 0), ServerEvent(4, 1, 0, 0),
           ServerEvent(99, 36, 0, 0) }

\* a frame cut short by the end of the stream: how many of its bytes arrived
PartialLengths == {0, 1, 31}

PartialFrames ==
  { SubSeq(ServerEvent(c, 1, 0, 0), 1, k) : c \in {5, 99}, k \in PartialLengths }

\* the random draws of one reset, one per cell: those placing few mines
Rngs ==
  { rng \in [0..(CellCount - 1) -> BOOLEAN] :
      Cardinality({i \in 0..(CellCount - 1) : rng[i]}) <= MaxMines }

\* which of n writes fails: none (0), the first or the last
WriteFailures(n) == IF n = 0 THEN {0} ELSE {0, 1, n}


(***************************************************************************)
(* The program: main.rs, one action per statement that calls out           *)
(***************************************************************************)
VARIABLES
  pc,                      \* the statement of main to run next, "done" at the end
  status,                  \* "running", or how the process ended
  overflow_checks,         \* the build: TRUE debug, FALSE release
  auth_token,
  connection_information,
  gc_id,
  window_id,
  pixmap_id,
  sprite,                  \* pngoutputinfo's width and height, x11_sprite_bytes
  scene,
  results,                 \* what x11_handshake and wait_for_x11_events returned
  last,                    \* the action taken last
  input,                   \* what the environment supplied to it
  io,                      \* the stream operations it made, in order
  calls                    \* the scene methods it called, in order

vars ==
  <<pc, status, overflow_checks, auth_token, connection_information, gc_id,
    window_id, pixmap_id, sprite, scene, results, last, input, io, calls>>

NoScene ==
  [state |-> "Uninitialized", window_id |-> 0, gc_id |-> 0, sprite_pixmap_id |-> 0,
   displayed_entities |-> <<>>, mines |-> <<>>]

NoInput == [kind |-> "none"]

Init ==
  /\ pc = "load_x11_auth_token"
  /\ status = "running"
  /\ overflow_checks \in BOOLEAN
  /\ auth_token = <<>>
  /\ connection_information = NoConnectionInformation
  /\ gc_id = 0
  /\ window_id = 0
  /\ pixmap_id = 0
  /\ sprite = NoSprite
  /\ scene = NoScene
  /\ results = [x11_handshake |-> "none", wait_for_x11_events |-> "none"]
  /\ last = "start"
  /\ input = NoInput
  /\ io = <<>>
  /\ calls = <<>>

\* the statement returned and main goes on to `next`, or the process ended as `how`
Goes(next) == pc' = next /\ status' = "running"
Ends(how) == pc' = "done" /\ status' = how

\* a request written with write_all(..).unwrap()
Unwrapped(writes, wfail, next) ==
  /\ io' = WriteAll(writes, wfail)
  /\ IF wfail = 0 THEN Goes(next) ELSE Ends("panic_unwrap")

\* main.rs:18
main_load_x11_auth_token ==
  /\ pc = "load_x11_auth_token"
  /\ \E records \in {<<1>>, <<>>} :
       \E r \in {load_x11_auth_token([env |-> "ok",
                                       data |-> FileBytes(records, 0)])} :
         /\ input' = [kind |-> "credentials", found |-> (r.result = "ok")]
         /\ IF r.result = "ok"
            THEN auth_token' = r.token /\ Goes("connect_x11_socket")
            ELSE auth_token' = auth_token /\ Ends("panic_unwrap")
  /\ last' = "load_x11_auth_token"
  /\ io' = <<>> /\ calls' = <<>>
  /\ UNCHANGED <<overflow_checks, connection_information, gc_id, window_id,
                 pixmap_id, sprite, scene, results>>

\* main.rs:19; connect_x11_socket exits the process when no socket answers
main_connect_x11_socket ==
  /\ pc = "connect_x11_socket"
  /\ \E connected \in BOOLEAN :
       /\ input' = [kind |-> "socket", connected |-> connected]
       /\ IF connected THEN Goes("x11_handshake") ELSE Ends("exit_1")
  /\ last' = "connect_x11_socket"
  /\ io' = <<>> /\ calls' = <<>>
  /\ UNCHANGED <<overflow_checks, auth_token, connection_information, gc_id,
                 window_id, pixmap_id, sprite, scene, results>>

\* main.rs:20: x11_handshake(..).unwrap(), the server answering one of `replies`
handshake_with(replies) ==
  /\ pc = "x11_handshake"
  /\ \E in \in replies :
       \E r \in {x11_handshake(auth_token, in.wfail, in.r1,
                               ServerStatic(in.success, in.units),
                               in.r2, ServerBody(in.v, in.f, in.sv))} :
           /\ input' = [kind |-> "handshake", reply |-> in]
           /\ io' = r.io
           /\ connection_information' = r.info
           /\ results' = [results EXCEPT !.x11_handshake =
                            IF r.result \in {"ok", "err"} THEN r.result ELSE "none"]
           /\ CASE r.result = "ok" -> Goes("create_gc")
                [] r.result = "err" -> Ends("panic_unwrap")
                [] OTHER -> Ends(r.result)
  /\ last' = "x11_handshake"
  /\ calls' = <<>>
  /\ UNCHANGED <<overflow_checks, auth_token, gc_id, window_id, pixmap_id,
                 sprite, scene>>

main_x11_handshake == handshake_with(HandshakeInputs)

\* main.rs:23-24
main_create_graphical_context ==
  /\ pc = "create_gc"
  /\ gc_id' = next_x11_id(0, connection_information)
  /\ \E wfail \in 0..1 :
       /\ input' = [kind |-> "stream", wfail |-> wfail]
       /\ Unwrapped(x11_create_graphical_context(
                      gc_id', connection_information.root_screen.id),
                    wfail, "create_window")
  /\ last' = "create_gc"
  /\ calls' = <<>>
  /\ UNCHANGED <<overflow_checks, auth_token, connection_information, window_id,
                 pixmap_id, sprite, scene, results>>

\* main.rs:26-36
main_create_window ==
  /\ pc = "create_window"
  /\ window_id' = next_x11_id(gc_id, connection_information)
  /\ \E wfail \in 0..1 :
       /\ input' = [kind |-> "stream", wfail |-> wfail]
       /\ Unwrapped(x11_create_window(
                      window_id', connection_information.root_screen.id, 200, 200,
                      (ENTITIES_COLUMN_COUNT * ENTITIES_WIDTH) % U16,
                      (ENTITIES_ROW_COUNT * ENTITIES_HEIGHT) % U16,
                      connection_information.root_screen.root_visual_id),
                    wfail, "map_window")
  /\ last' = "create_window"
  /\ calls' = <<>>
  /\ UNCHANGED <<overflow_checks, auth_token, connection_information, gc_id,
                 pixmap_id, sprite, scene, results>>

\* main.rs:38
main_map_window ==
  /\ pc = "map_window"
  /\ \E wfail \in 0..1 :
       /\ input' = [kind |-> "stream", wfail |-> wfail]
       /\ Unwrapped(x11_map_window(window_id), wfail, "load_sprite")
  /\ last' = "map_window"
  /\ calls' = <<>>
  /\ UNCHANGED <<overflow_checks, auth_token, connection_information, gc_id,
                 window_id, pixmap_id, sprite, scene, results>>

\* main.rs:40-45: the file is opened and decoded (each step unwrapped), then
\* rgba_to_bgra asserts that the length is a multiple of 4
main_load_sprite ==
  /\ pc = "load_sprite"
  /\ \E decoded \in BOOLEAN, png \in Sprites :
       /\ input' = [kind |-> "png", decoded |-> decoded, png |-> png]
       /\ IF ~decoded
          THEN sprite' = sprite /\ Ends("panic_unwrap")
          ELSE IF Len(png.bytes) % 4 # 0
          THEN sprite' = sprite /\ Ends("panic_assert")
          ELSE /\ sprite' = [width |-> png.width, height |-> png.height,
                             bytes |-> rgba_to_bgra(png.bytes)]
               /\ Goes("create_pixmap")
  /\ last' = "load_sprite"
  /\ io' = <<>> /\ calls' = <<>>
  /\ UNCHANGED <<overflow_checks, auth_token, connection_information, gc_id,
                 window_id, pixmap_id, scene, results>>

\* main.rs:47-55
main_create_pixmap ==
  /\ pc = "create_pixmap"
  /\ pixmap_id' = next_x11_id(window_id, connection_information)
  /\ \E wfail \in 0..1 :
       /\ input' = [kind |-> "stream", wfail |-> wfail]
       /\ Unwrapped(x11_create_pixmap(window_id, pixmap_id', sprite.width % U16,
                                      sprite.height % U16, 24),
                    wfail, "put_image")
  /\ last' = "create_pixmap"
  /\ calls' = <<>>
  /\ UNCHANGED <<overflow_checks, auth_token, connection_information, gc_id,
                 window_id, sprite, scene, results>>

\* main.rs:58-71: x11_put_image drops the result of each of its three writes;
\* x11_sprite_bytes is moved into the call and the image is not used again
main_put_image ==
  /\ pc = "put_image"
  /\ \E failed \in SUBSET (1..3) :
       LET writes == x11_put_image(window_id, pixmap_id, gc_id,
                                   sprite.width % U16, sprite.height % U16,
                                   0, 0, 24, sprite.bytes)
       IN  /\ input' = [kind |-> "stream", failed |-> failed]
           /\ io' = [i \in 1..Len(writes) |->
                       WriteOp(writes[i], i \notin failed)]
  /\ sprite' = NoSprite
  /\ Goes("scene_new")
  /\ last' = "put_image"
  /\ calls' = <<>>
  /\ UNCHANGED <<overflow_checks, auth_token, connection_information, gc_id,
                 window_id, pixmap_id, scene, results>>

\* main.rs:73
main_scene_new ==
  /\ pc = "scene_new"
  /\ scene' = Scene_new(window_id, gc_id, pixmap_id)
  /\ Goes("scene_reset")
  /\ last' = "scene_new"
  /\ input' = NoInput
  /\ io' = <<>> /\ calls' = <<>>
  /\ UNCHANGED <<overflow_checks, auth_token, connection_information, gc_id,
                 window_id, pixmap_id, sprite, results>>

\* main.rs:74
main_scene_reset ==
  /\ pc = "scene_reset"
  /\ \E rng \in Rngs :
       /\ input' = [kind |-> "rng", rng |-> rng]
       /\ scene' = reset(scene, rng)
  /\ Goes("scene_render")
  /\ last' = "scene_reset"
  /\ io' = <<>>
  /\ calls' = <<Call("reset", <<>>)>>
  /\ UNCHANGED <<overflow_checks, auth_token, connection_information, gc_id,
                 window_id, pixmap_id, sprite, results>>

\* main.rs:75
main_scene_render ==
  /\ pc = "scene_render"
  /\ \E writes \in {render(scene)} :
       \E wfail \in WriteFailures(Len(writes)) :
           /\ input' = [kind |-> "stream", wfail |-> wfail]
           /\ Unwrapped(writes, wfail, "wait_for_x11_events")
  /\ last' = "scene_render"
  /\ calls' = <<Call("render", <<>>)>>
  /\ UNCHANGED <<overflow_checks, auth_token, connection_information, gc_id,
                 window_id, pixmap_id, sprite, scene, results>>

(***************************************************************************)
(* main.rs:76, game.rs:177-211: one iteration of the loop of               *)
(* wait_for_x11_events.  main drops what the function returns and ends.    *)
(***************************************************************************)
NoRng == [i \in 0..(CellCount - 1) |-> FALSE]

\* a variant: as with read, the bytes that arrived are taken for a frame
read_generic_event_short(arrived) ==
  IF Len(arrived) >= 1
  THEN [kind |-> "ok",
        generic_event |->
          SubSeq(arrived \o Zeros(size_of(GenericEvent)), 1, size_of(GenericEvent))]
  ELSE [kind |-> "eof", generic_event |-> Zeros(size_of(GenericEvent))]

\* lines 178-191: read_exact into generic_event, which starts as zeros.  It
\* is Ok only when the 32 bytes have arrived; when the stream ends before, it
\* is UnexpectedEof and generic_event holds what arrived.
read_generic_event(arrived) ==
  IF Len(arrived) >= size_of(GenericEvent)
  THEN [kind |-> "ok", generic_event |-> SubSeq(arrived, 1, size_of(GenericEvent))]
  ELSE [kind |-> "eof",
        generic_event |-> arrived \o Zeros(size_of(GenericEvent) - Len(arrived))]

\* a whole frame arrives and is dispatched
event_loop_frame ==
  /\ pc = "wait_for_x11_events"
  /\ \E frame \in Frames :
       \E read \in {read_generic_event(frame)} :
       \E dry \in {dispatch_event(scene, read.generic_event, NoRng,
                                  overflow_checks)} :
       \E resets \in {\E i \in 1..Len(dry.calls) : dry.calls[i].fn = "reset"} :
       \E rng \in (IF resets THEN Rngs ELSE {NoRng}) :
       \E arm \in {IF resets
                   THEN dispatch_event(scene, read.generic_event, rng,
                                       overflow_checks)
                   ELSE dry} :
       \E writes \in {render_writes(arm)} :
       \E wfail \in WriteFailures(Len(writes)) :
                 /\ read.kind = "ok"
                 /\ input' = [kind |-> "frame", frame |-> frame, rng |-> rng,
                              wfail |-> wfail]
                 /\ io' = <<ReadExact("generic_event", size_of(GenericEvent),
                                      frame, "ok")>> \o WriteAll(writes, wfail)
                 /\ calls' = arm.calls
                 /\ scene' = arm.scene
                 /\ \E panic \in {render_panic(arm, wfail)} :
                      IF panic = "none"
                      THEN Goes("wait_for_x11_events")
                      ELSE Ends(panic)
  /\ last' = "event_loop_frame"
  /\ UNCHANGED <<overflow_checks, auth_token, connection_information, gc_id,
                 window_id, pixmap_id, sprite, results>>

\* the stream ends, on a frame boundary or inside a frame.  When the read
\* reports UnexpectedEof the function returns Ok(()) at line 187; a read that
\* reports Ok goes on to the match of line 193.
event_loop_eof ==
  /\ pc = "wait_for_x11_events"
  /\ \E partial \in PartialFrames :
       \E read \in {read_generic_event(partial)} :
         /\ input' = [kind |-> "eof", partial |-> partial]
         /\ IF read.kind = "eof"
            THEN /\ io' = <<ReadExact("generic_event", size_of(GenericEvent),
                                      partial, "eof")>>
                 /\ results' = [results EXCEPT !.wait_for_x11_events = "ok"]
                 /\ Ends("exit_0")
                 /\ calls' = <<>>
                 /\ scene' = scene
            ELSE \E arm \in {dispatch_event(scene, read.generic_event, NoRng,
                                            overflow_checks)} :
                 /\ io' = <<ReadExact("generic_event", size_of(GenericEvent),
                                      read.generic_event, "ok")>>
                            \o WriteAll(render_writes(arm), 0)
                 /\ results' = results
                 /\ calls' = arm.calls
                 /\ scene' = arm.scene
                 /\ IF arm.panic = "none"
                    THEN Goes("wait_for_x11_events")
                    ELSE Ends(arm.panic)
  /\ last' = "event_loop_eof"
  /\ UNCHANGED <<overflow_checks, auth_token, connection_information, gc_id,
                 window_id, pixmap_id, sprite>>

\* the read fails otherwise: Err(e)
event_loop_error ==
  /\ pc = "wait_for_x11_events"
  /\ input' = [kind |-> "read_error"]
  /\ io' = <<ReadExact("generic_event", size_of(GenericEvent), <<>>, "err")>>
  /\ results' = [results EXCEPT !.wait_for_x11_events = "err"]
  /\ Ends("exit_0")
  /\ last' = "event_loop_error"
  /\ calls' = <<>>
  /\ UNCHANGED <<overflow_checks, auth_token, connection_information, gc_id,
                 window_id, pixmap_id, sprite, scene>>

Next ==
  \/ main_load_x11_auth_token
  \/ main_connect_x11_socket
  \/ main_x11_handshake
  \/ main_create_graphical_context
  \/ main_create_window
  \/ main_map_window
  \/ main_load_sprite
  \/ main_create_pixmap
  \/ main_put_image
  \/ main_scene_new
  \/ main_scene_reset
  \/ main_scene_render
  \/ event_loop_frame
  \/ event_loop_eof
  \/ event_loop_error

Spec == Init /\ [][Next]_vars

(***************************************************************************)
(* main up to the return of x11_handshake, the server accepting with       *)
(* every vendor length, format count and screen of AcceptedReplies.        *)
(***************************************************************************)
main_x11_handshake_accepted == handshake_with(AcceptedReplies)

HandshakeNext ==
  \/ main_load_x11_auth_token
  \/ main_connect_x11_socket
  \/ main_x11_handshake_accepted

HandshakeSpec == Init /\ [][HandshakeNext]_vars

(***************************************************************************)
(* main up to the sleep that follows put-image (main.rs:17-71), with every *)
(* server of ServerVariants accepting.                                     *)
(***************************************************************************)
main_x11_handshake_any_server ==
  handshake_with({ AcceptedReply(0, 0, sv) : sv \in 1..Len(ServerVariants) })

StartupNext ==
  \/ main_load_x11_auth_token
  \/ main_connect_x11_socket
  \/ main_x11_handshake_any_server
  \/ main_create_graphical_context
  \/ main_create_window
  \/ main_map_window
  \/ main_load_sprite
  \/ main_create_pixmap
  \/ main_put_image

StartupSpec == Init /\ [][StartupNext]_vars

(***************************************************************************)
(* The functions of x11comm.rs called on their own: one call per           *)
(* behaviour, its arguments drawn from the sets below.                     *)
(***************************************************************************)
Word(hi, lo) == [hi |-> hi, lo |-> lo]

\* u32s at both ends of the range and around the resource ids of a server
Words32 ==
  { Word(h, l) : h \in {0, 31, 32, 32768, 65535},
                 l \in {0, 1, 2, 3, 4, 65532, 65533, 65534, 65535} }

PreviousIds == { Word(0, 0), Word(32, 1), Word(32, 2), Word(65535, 65535) }
IdBases == { Word(0, 0), Word(32, 0), Word(64, 0), Word(65535, 65534),
             Word(65535, 65535) }
IdMasks == { Word(0, 0), Word(31, 65535), Word(63, 65535), Word(65535, 65535) }

\* resource ids and u16 coordinates and sizes handed to the encoders
Ids == {1, 2097153, 2147483647}
Coordinates == {0, 200, 65535}

\* Lengths of the image handed to x11_put_image: the short ones, the longest
\* whose request has 65535 units of four bytes, the next multiple of 4, and
\* that of 256 x 256 pixels of four bytes.
PayloadLengths == (0..MaxPayload) \cup {262116, 262120, 262144}

\* an image of n bytes, none of them 0
Payload(n) == [i \in 1..n |-> 1 + (i % 255)]

CallInputs ==
  { [kind |-> "call", fn |-> "round_up_4", args |-> <<n>>] : n \in Words32 }
  \cup { [kind |-> "call", fn |-> "next_x11_id", args |-> <<p, b, m>>] :
           p \in PreviousIds, b \in IdBases, m \in IdMasks }
  \cup { [kind |-> "call", fn |-> "x11_create_graphical_context",
          args |-> <<g, r>>] : g \in Ids, r \in Ids }
  \cup { [kind |-> "call", fn |-> "x11_create_window",
          args |-> <<w, r, 200, 200, width, height, 33>>] :
           w \in Ids, r \in Ids, width \in Coordinates, height \in Coordinates }
  \cup { [kind |-> "call", fn |-> "x11_map_window", args |-> <<w>>] : w \in Ids }
  \cup { [kind |-> "call", fn |-> "x11_create_pixmap",
          args |-> <<w, pm, width, height, 24>>] :
           w \in Ids, pm \in Ids, width \in Coordinates, height \in Coordinates }
  \cup { [kind |-> "call", fn |-> "x11_put_image",
          args |-> <<2097154, 2097155, 2097153, width, 1, 0, 0, 24, n>>] :
           width \in Coordinates, n \in PayloadLengths }
  \cup { [kind |-> "call", fn |-> "load_x11_auth_token", args |-> <<f>>] :
           f \in CredentialFiles }
  \cup { [kind |-> "call", fn |-> "x11_copy_area",
          args |-> <<2097155, 2097154, g, x, y, x, y, 16, 16>>] :
           g \in Ids, x \in Coordinates, y \in Coordinates }

CallInit ==
  /\ pc = "call"
  /\ status = "running"
  /\ overflow_checks \in BOOLEAN
  /\ auth_token = <<>>
  /\ connection_information = NoConnectionInformation
  /\ gc_id = 0
  /\ window_id = 0
  /\ pixmap_id = 0
  /\ sprite = NoSprite
  /\ scene = NoScene
  /\ results = [x11_handshake |-> "none", wait_for_x11_events |-> "none"]
  /\ last = "start"
  /\ input \in CallInputs
  /\ io = <<>>
  /\ calls = <<>>

\* the call of input.fn returns r.value, or panics as r.panic
Returns(r) ==
  /\ calls' = <<[fn |-> input.fn, args |-> input.args, returned |-> r.value]>>
  /\ pc' = "done"
  /\ status' = IF r.panic = "none" THEN "returned" ELSE r.panic
  /\ last' = "call_" \o input.fn
  /\ UNCHANGED <<overflow_checks, auth_token, connection_information, gc_id,
                 window_id, pixmap_id, sprite, scene, results, input>>

call_round_up_4 ==
  /\ pc = "call"
  /\ input.fn = "round_up_4"
  /\ Returns(round_up_4_u32(input.args[1], overflow_checks))
  /\ UNCHANGED io

call_next_x11_id ==
  /\ pc = "call"
  /\ input.fn = "next_x11_id"
  /\ Returns(next_x11_id_u32(input.args[1],
                             [resource_id_base |-> input.args[2],
                              resource_id_mask |-> input.args[3]],
                             overflow_checks))
  /\ UNCHANGED io

\* what the log keeps of a buffer handed to write_all: its size and its first
\* LoggedBytes bytes
Logged(w) ==
  [op |-> "write", what |-> w.what, layout |-> w.layout, ok |-> TRUE,
   size |-> Len(Image(w)),
   head |-> SubSeq(Image(w), 1,
                   IF Len(Image(w)) < LoggedBytes THEN Len(Image(w)) ELSE LoggedBytes)]

\* an encoder called on a stream that takes every write: it returns ()
Encodes(writes) ==
  /\ pc = "call"
  /\ Returns([panic |-> "none", value |-> <<>>])
  /\ io' = [i \in 1..Len(writes) |-> Logged(writes[i])]

call_x11_create_graphical_context ==
  /\ input.fn = "x11_create_graphical_context"
  /\ Encodes(x11_create_graphical_context(input.args[1], input.args[2]))

call_x11_create_window ==
  /\ input.fn = "x11_create_window"
  /\ Encodes(x11_create_window(input.args[1], input.args[2], input.args[3],
                               input.args[4], input.args[5], input.args[6],
                               input.args[7]))

call_x11_map_window ==
  /\ input.fn = "x11_map_window"
  /\ Encodes(x11_map_window(input.args[1]))

call_x11_create_pixmap ==
  /\ input.fn = "x11_create_pixmap"
  /\ Encodes(x11_create_pixmap(input.args[1], input.args[2], input.args[3],
                               input.args[4], input.args[5]))

\* the last argument is the length of the image; the image is Payload of it
call_x11_put_image ==
  /\ input.fn = "x11_put_image"
  /\ \E data \in {Payload(input.args[9])} :
       Encodes(x11_put_image(input.args[1], input.args[2], input.args[3],
                             input.args[4], input.args[5], input.args[6],
                             input.args[7], input.args[8], data))

call_x11_copy_area ==
  /\ input.fn = "x11_copy_area"
  /\ Encodes(x11_copy_area(input.args[1], input.args[2], input.args[3],
                           input.args[4], input.args[5], input.args[6],
                           input.args[7], input.args[8], input.args[9]))

call_load_x11_auth_token ==
  /\ pc = "call"
  /\ input.fn = "load_x11_auth_token"
  /\ \E r \in {load_x11_auth_token(
                  [env |-> input.args[1].env,
                   data |-> FileBytes(input.args[1].records, input.args[1].cut)])} :
       Returns([panic |-> IF r.result = "panic_expect" THEN r.result ELSE "none",
                value |-> r])
  /\ UNCHANGED io

CallNext ==
  \/ call_load_x11_auth_token
  \/ call_round_up_4
  \/ call_next_x11_id
  \/ call_x11_create_graphical_context
  \/ call_x11_create_window
  \/ call_x11_map_window
  \/ call_x11_create_pixmap
  \/ call_x11_put_image
  \/ call_x11_copy_area

CallSpec == CallInit /\ [][CallNext]_vars

(***************************************************************************)
(* The game on its own: a scene from Scene::new, then resets and clicks    *)
(* inside the board in any order, with every placement of mines.           *)
(***************************************************************************)
\* the first and the last pixel of every cell of the board
BoardPoints ==
  { <<c * ENTITIES_WIDTH + d * (ENTITIES_WIDTH - 1),
       r * ENTITIES_HEIGHT + d * (ENTITIES_HEIGHT - 1)>> :
      c \in 0..(ENTITIES_COLUMN_COUNT - 1), r \in 0..(ENTITIES_ROW_COUNT - 1),
      d \in {0, 1} }

GameInit ==
  /\ pc = "game"
  /\ status = "running"
  /\ overflow_checks \in BOOLEAN
  /\ auth_token = <<>>
  /\ connection_information = NoConnectionInformation
  /\ gc_id = 2097153
  /\ window_id = 2097154
  /\ pixmap_id = 2097155
  /\ sprite = NoSprite
  /\ scene = Scene_new(2097154, 2097153, 2097155)
  /\ results = [x11_handshake |-> "none", wait_for_x11_events |-> "none"]
  /\ last = "start"
  /\ input = NoInput
  /\ io = <<>>
  /\ calls = <<>>

game_reset ==
  /\ pc = "game"
  /\ \E rng \in [0..(CellCount - 1) -> BOOLEAN] :
       /\ input' = [kind |-> "reset", rng |-> rng]
       /\ scene' = reset(scene, rng)
  /\ calls' = <<Call("reset", <<>>)>>
  /\ last' = "game_reset"
  /\ UNCHANGED <<pc, status, overflow_checks, auth_token, connection_information,
                 gc_id, window_id, pixmap_id, sprite, results, io>>

game_on_cell_clicked ==
  /\ pc = "game"
  /\ \E p \in BoardPoints, button \in {1, 2, 3} :
       \E clicked \in {on_cell_clicked(scene, p[1], p[2], button, overflow_checks)} :
         /\ input' = [kind |-> "click", x |-> p[1], y |-> p[2], button |-> button]
         /\ calls' = <<Call("on_cell_clicked", <<p[1], p[2], button>>)>>
         /\ scene' = clicked.scene
         /\ IF clicked.panic = "none"
            THEN pc' = "game" /\ status' = "running"
            ELSE Ends(clicked.panic)
  /\ last' = "game_click"
  /\ UNCHANGED <<overflow_checks, auth_token, connection_information, gc_id,
                 window_id, pixmap_id, sprite, results, io>>

GameNext ==
  \/ game_reset
  \/ game_on_cell_clicked

GameSpec == GameInit /\ [][GameNext]_vars

(***************************************************************************)
(* What the event loop did with the frame it has just read.                *)
(***************************************************************************)
FrameStep == last = "event_loop_frame"

\* the render call as the loop's log records it
RenderCall == [fn |-> "render", args |-> <<>>]
ResetCall == [fn |-> "reset", args |-> <<>>]

\* little-endian u16 at a byte offset (counted from 0) of a frame
U16At(frame, offset) == frame[offset + 1] + 256 * frame[offset + 2]

\* the writes among the logged stream operations
WritesOf(ops) == SelectSeq(ops, LAMBDA e : e.op = "write")

(***************************************************************************)
(* C1: every ButtonRelease frame (first byte 5) makes the loop call        *)
(* on_cell_clicked exactly once, with x = the u16 at offset 24, y = the    *)
(* u16 at offset 26 and button = the byte at offset 1, and then render     *)
(* exactly once, before it reads the next frame.                           *)
(* Refuted: a release outside the board aborts inside on_cell_clicked.     *)
(***************************************************************************)
C1_ButtonReleaseClicksThenRenders ==
  (FrameStep /\ input.frame[1] = 5)
    => calls = << [fn |-> "on_cell_clicked",
                   args |-> <<U16At(input.frame, 24), U16At(input.frame, 26),
                              input.frame[2]>>],
                  RenderCall >>

\* a left release one row below the board: the callback runs, nothing is drawn
C1_ReleaseBelowBoardAborts ==
  /\ FrameStep /\ input.frame[1] = 5 /\ input.frame[2] = 1
  /\ U16At(input.frame, 24) = 0
  /\ U16At(input.frame, 26) = ENTITIES_ROW_COUNT * ENTITIES_HEIGHT
  /\ calls = << [fn |-> "on_cell_clicked",
                 args |-> <<0, ENTITIES_ROW_COUNT * ENTITIES_HEIGHT, 1>>] >>
  /\ WritesOf(io) = <<>>
  /\ status = "panic_index"

(***************************************************************************)
(* C2: a KeyRelease frame (first byte 3) whose byte at offset 1 is 36      *)
(* makes the loop call reset once and then render once, in that order; a   *)
(* KeyRelease frame with another detail byte calls neither and leaves the  *)
(* board as it was.                                                        *)
(***************************************************************************)
C2_KeyReleaseEnterResetsThenRenders ==
  [][ (last' = "event_loop_frame" /\ input'.frame[1] = 3)
        => IF input'.frame[2] = 36
           THEN calls' = <<ResetCall, RenderCall>>
           ELSE calls' = <<>> /\ scene' = scene ]_vars

\* Enter released: every cell is covered and the draws placed a mine
C2_EnterReleased ==
  /\ FrameStep /\ input.frame[1] = 3 /\ input.frame[2] = 36
  /\ calls = <<ResetCall, RenderCall>>
  /\ \A i \in 0..(CellCount - 1) : scene.displayed_entities[i] = "Covered"
  /\ \E i \in 0..(CellCount - 1) : scene.mines[i]
  /\ Len(WritesOf(io)) = CellCount
  /\ status = "running"

(***************************************************************************)
(* C3: an Expose frame (first byte 12) makes the loop render exactly once  *)
(* and leaves displayed_entities, mines and the scene state unchanged.     *)
(***************************************************************************)
C3_ExposureRendersOnceBoardUnchanged ==
  [][ (last' = "event_loop_frame" /\ input'.frame[1] = 12)
        => /\ calls' = <<RenderCall>>
           /\ scene'.displayed_entities = scene.displayed_entities
           /\ scene'.mines = scene.mines
           /\ scene'.state = scene.state ]_vars

\* an Expose frame redraws a board that is partly uncovered
C3_ExposedPartlyUncovered ==
  /\ FrameStep /\ input.frame[1] = 12
  /\ calls = <<RenderCall>>
  /\ Len(WritesOf(io)) = CellCount
  /\ \E i \in 0..(CellCount - 1) : scene.displayed_entities[i] = "Uncovered1"
  /\ \E i \in 0..(CellCount - 1) : scene.displayed_entities[i] = "Flagged"
  /\ status = "running"

(***************************************************************************)
(* C4: a frame whose first byte is none of 12, 3 and 5 makes the loop call *)
(* nothing (no reset, no click, no render) and write nothing; the board is *)
(* as before and the loop goes on to read the next frame.                  *)
(***************************************************************************)
C4_OtherFramesIgnored ==
  [][ (last' = "event_loop_frame" /\ input'.frame[1] \notin {12, 3, 5})
        => /\ calls' = <<>>
           /\ WritesOf(io') = <<>>
           /\ scene' = scene
           /\ pc' = "wait_for_x11_events" /\ status' = "running" ]_vars

\* a frame of code 99 is read whole, a flag set before it still stands, and the
\* loop is back at its read
C4_UnknownCodeRead ==
  /\ FrameStep /\ input.frame[1] = 99
  /\ Len(io) = 1 /\ io[1].op = "read" /\ io[1].ok /\ io[1].n = 32
  /\ calls = <<>>
  /\ \E i \in 0..(CellCount - 1) : scene.displayed_entities[i] = "Flagged"
  /\ pc = "wait_for_x11_events" /\ status = "running"

(***************************************************************************)
(* The receive loop: its steps, and how the process can have stopped.      *)
(***************************************************************************)
LoopStep == last \in {"event_loop_frame", "event_loop_eof", "event_loop_error"}

Aborted ==
  status \in {"panic_unwrap", "panic_assert", "panic_index", "panic_overflow"}

(***************************************************************************)
(* C5: the receive loop ends with Ok(()) when its 32-byte read reports the *)
(* end of the stream, with Err(e) when the read fails otherwise, and for   *)
(* no other reason; after either outcome no further frame is dispatched.   *)
(* Refuted: the loop also ends when a handler aborts the process.          *)
(***************************************************************************)
C5_LoopEndsOnlyOnReadOutcome ==
  /\ (LoopStep /\ io[1].err = "UnexpectedEof")
       => (results.wait_for_x11_events = "ok" /\ pc = "done")
  /\ (LoopStep /\ io[1].err = "Other")
       => (results.wait_for_x11_events = "err" /\ pc = "done")
  /\ (LoopStep /\ pc = "done")
       => (~io[1].ok /\ results.wait_for_x11_events \in {"ok", "err"})
  /\ results.wait_for_x11_events # "none"
       => last \in {"event_loop_eof", "event_loop_error"}

\* the loop has ended on a frame that was read whole, and returned nothing:
\* the multiplication of row_column_to_idx overflowed
C5_LoopEndedWithoutReturning ==
  /\ FrameStep /\ io[1].ok
  /\ pc = "done" /\ status = "panic_overflow"
  /\ results.wait_for_x11_events = "none"

(***************************************************************************)
(* C6: every I/O error met while the event loop runs, a failed write of a  *)
(* copy-area request during a redraw included, is returned to the caller   *)
(* of wait_for_x11_events as an Err value and does not abort the process.  *)
(* Refuted: x11_copy_area unwraps the result of its write.                 *)
(***************************************************************************)
C6_LoopIoErrorsReturned ==
  (LoopStep /\ \E i \in 1..Len(io) : io[i].err = "Other")
    => (results.wait_for_x11_events = "err" /\ ~Aborted)

\* an Expose frame whose first copy-area write fails: the process aborts
C6_FailedCopyAreaAborts ==
  /\ FrameStep /\ input.frame[1] = 12
  /\ Len(io) = 2 /\ io[2].op = "write" /\ io[2].what = "copy_area"
  /\ io[2].err = "Other"
  /\ status = "panic_unwrap"
  /\ results.wait_for_x11_events = "none"

(***************************************************************************)
(* The handshake step and the stream operations it logged.                 *)
(***************************************************************************)
HandshakeStep == last = "x11_handshake"

\* the order x11_handshake issues its stream operations in
HandshakeOrder ==
  << <<"write", "header">>, <<"write", "auth_name">>, <<"write", "padding">>,
     <<"write", "auth_token">>, <<"read", "static_response">>,
     <<"read", "recv_buf">> >>

(***************************************************************************)
(* C7: x11_handshake writes the header, the scheme name, the padding and   *)
(* the 16-byte token in that order and reads nothing before the four       *)
(* writes have completed; it then reads exactly 8 bytes and then exactly   *)
(* length * 4 bytes.  After the handshake every read is a 32-byte read of  *)
(* the event loop, issued before any write of its iteration: no request    *)
(* waits for a reply.                                                      *)
(***************************************************************************)
C7_HandshakeRequestThenResponse ==
  /\ HandshakeStep =>
       /\ Len(io) <= 6
       /\ \A i \in 1..Len(io) :
            /\ <<io[i].op, io[i].what>> = HandshakeOrder[i]
            /\ i < Len(io) => io[i].ok
       /\ Len(io) >= 2 => io[2].value =
            <<77, 73, 84, 45, 77, 65, 71, 73, 67, 45, 67, 79, 79, 75, 73, 69,
              45, 49>>
       /\ Len(io) >= 4 => (io[4].value = auth_token /\ Len(io[4].value) = 16)
       /\ Len(io) >= 5 => io[5].n = 8
       /\ Len(io) >= 6 => io[6].n = 4 * U16At(io[5].value, 6)
  /\ ~HandshakeStep =>
       \A i \in 1..Len(io) :
         io[i].op = "read" => (LoopStep /\ i = 1 /\ io[i].n = 32)

\* a handshake that ran to its end: four writes, then 8 bytes, then the body
C7_HandshakeCompleted ==
  /\ HandshakeStep /\ Len(io) = 6
  /\ \A i \in 1..6 : io[i].ok
  /\ io[6].n > 0 /\ Len(io[6].value) = io[6].n
  /\ results.x11_handshake = "ok"

(***************************************************************************)
(* C8, as amended: the header x11_handshake writes is a fixed 12-byte      *)
(* record: byte-order indicator 'l', 1 reserved byte, major version 11 and *)
(* minor version 0 (2 bytes each), the 2-byte length of the scheme name,   *)
(* the 2-byte length of the auth data, 2 reserved bytes; and the name that *)
(* follows is padded with zero bytes so that the 16-byte token starts on a *)
(* 4-byte boundary counted from the start of the name.                     *)
(***************************************************************************)
C8_HeaderFieldsAndNamePadding ==
  HandshakeStep =>
    /\ Len(io) >= 1 =>
         Image(io[1]) = <<108, 0, 11, 0, 0, 0, 18, 0, 16, 0, 0, 0>>
    /\ Len(io) >= 3 =>
         /\ Len(io[2].value) = U16At(Image(io[1]), 6)
         /\ (Len(io[2].value) + Len(io[3].value)) % 4 = 0
         /\ Len(io[3].value) < 4
         /\ \A k \in 1..Len(io[3].value) : io[3].value[k] = 0
    /\ Len(io) >= 4 => Len(io[4].value) = U16At(Image(io[1]), 8)

\* the header, the name and its padding have been written and the token follows
C8_HeaderNamePaddingWritten ==
  /\ HandshakeStep /\ Len(io) >= 4
  /\ io[1].ok /\ io[2].ok /\ io[3].ok
  /\ Len(Image(io[1])) = 12
  /\ Len(io[2].value) = 18 /\ Len(io[3].value) = 2

\* C8 as the specification words it: the header is a fixed 8-byte record
C8_HeaderIsEightBytes ==
  (HandshakeStep /\ Len(io) >= 1) =>
    /\ Len(Image(io[1])) = 8
    /\ Len(io) >= 3 => (Len(io[2].value) + Len(io[3].value)) % 4 = 0

(***************************************************************************)
(* C9: when the success byte of the 8-byte static response is not 1,       *)
(* x11_handshake aborts on its assertion: it returns neither Ok nor Err,   *)
(* reads no response body, and no request is written afterwards.           *)
(***************************************************************************)
C9_RefusedHandshakeAborts ==
  /\ (HandshakeStep /\ Len(io) >= 5 /\ io[5].ok /\ io[5].value[1] # 1)
       => /\ status = "panic_assert" /\ pc = "done"
          /\ results.x11_handshake = "none"
          /\ Len(io) = 5
  /\ results.x11_handshake = "none"
       => last \in {"start", "load_x11_auth_token", "connect_x11_socket",
                    "x11_handshake"}

\* the server answers 2 (Authenticate): the assertion fails after the 8 bytes
C9_AuthenticateAnswered ==
  /\ HandshakeStep /\ Len(io) = 5 /\ io[5].ok /\ io[5].value[1] = 2
  /\ status = "panic_assert"
  /\ results.x11_handshake = "none"

(***************************************************************************)
(* C10: for every accepted response body with vendor-string length v and   *)
(* pixmap-format count f, x11_handshake reads the Screen record at byte    *)
(* offset 32 + roundUp4(v) + 8 * f of the body, and the returned           *)
(* ConnectionInformation carries the resource-id base and mask of the      *)
(* 32-byte prefix and the width, height and root visual id stored at that  *)
(* offset, which are the values the server put there; v = 0, 1, 3, 4       *)
(* among them.                                                             *)
(***************************************************************************)
U32At(bytes, offset) ==
  U16At(bytes, offset) + U16 * U16At(bytes, offset + 2)

C10_ScreenParsedAtOffset ==
  (HandshakeStep /\ Len(io) = 6 /\ io[6].ok /\ io[5].value[1] = 1
     /\ Len(io[6].value) >= 32 + 40)
    => LET body == io[6].value
           v == U16At(body, 16)
           f == body[22]
           offset == 32 + 4 * ((v + 3) \div 4) + 8 * f
           server == ServerVariants[input.reply.sv]
           info == connection_information
       IN  /\ v = input.reply.v /\ f = input.reply.f
           /\ results.x11_handshake = "ok"
           /\ info.resource_id_base = U32At(body, 4)
           /\ info.resource_id_mask = U32At(body, 8)
           /\ info.root_screen.id = U32At(body, offset)
           /\ info.root_screen.width = U16At(body, offset + 20)
           /\ info.root_screen.height = U16At(body, offset + 22)
           /\ info.root_screen.root_visual_id = U32At(body, offset + 32)
           /\ info.resource_id_base = server.base
           /\ info.resource_id_mask = server.mask
           /\ info.root_screen.id = server.root
           /\ info.root_screen.width = server.width
           /\ info.root_screen.height = server.height
           /\ info.root_screen.root_visual_id = server.visual

\* the second server, a vendor of 3 bytes (padded to 4) and 2 pixmap formats
C10_PaddedVendorParsed ==
  /\ HandshakeStep /\ results.x11_handshake = "ok"
  /\ input.reply.v = 3 /\ input.reply.f = 2 /\ input.reply.sv = 2
  /\ connection_information.root_screen.width = 800
  /\ connection_information.root_screen.root_visual_id = 71
  /\ connection_information.resource_id_base = 4194304



(***************************************************************************)
(* The resource-id allocator.                                              *)
(***************************************************************************)
CalledAs(fn) == last = "call_" \o fn

\* r - 1 on a u32, wrapping below 0
WordPred(r) ==
  IF r.lo > 0 THEN Word(r.hi, r.lo - 1) ELSE Word((r.hi + U16 - 1) % U16, U16 - 1)

\* C11: next_x11_id returns, for every previous id p, base B and mask M, a
\* value r with r - 1 = (M & p) | B; with B = 0x00200000 and M = 0x001FFFFF
\* it returns 0x00200001 for p = 0 and 0x00200002 for p = 0x00200001.
C11_NextIdIsOnePastMaskedBase ==
  CalledAs("next_x11_id") =>
    LET p == input.args[1]
        B == input.args[2]
        M == input.args[3]
        r == calls[1].returned
    IN  /\ status = "returned"
        /\ WordPred(r) = WordOr(WordAnd(M, p), B)
        /\ (B = Word(32, 0) /\ M = Word(31, 65535) /\ p = Word(0, 0))
             => r = Word(32, 1)
        /\ (B = Word(32, 0) /\ M = Word(31, 65535) /\ p = Word(32, 1))
             => r = Word(32, 2)

\* the call whose masked base is 0xFFFFFFFF, in a build with overflow checks
C11_NextIdOverflowed ==
  /\ CalledAs("next_x11_id")
  /\ input.args[2] = Word(65535, 65535)
  /\ status = "panic_overflow"


\* the ids main has drawn so far are pairwise distinct and strictly increasing
IdsIncrease ==
  /\ gc_id # 0 => 0 < gc_id
  /\ window_id # 0 => gc_id < window_id
  /\ pixmap_id # 0 => window_id < pixmap_id /\ gc_id < pixmap_id

\* C12 (as stated): the ids main obtains by chaining next_x11_id from 0 (graphics
\* context, window, pixmap) are pairwise distinct and strictly increasing, for
\* every resource-id base and mask the handshake reports.
C12_IdsNeverReused ==
  last \in {"create_gc", "create_window", "create_pixmap"} => IdsIncrease

\* C12 (amended): they are, being base + 1, base + 2 and base + 3, when the
\* reported mask has its two lowest bits set and the reported base has them clear.
C12_IdsNeverReusedUnderTwoBitMask ==
  (/\ last \in {"create_gc", "create_window", "create_pixmap"}
   /\ BitAnd(connection_information.resource_id_mask, 3) = 3
   /\ BitAnd(connection_information.resource_id_base, 3) = 0)
    => /\ IdsIncrease
       /\ gc_id = connection_information.resource_id_base + 1
       /\ window_id # 0 => window_id = connection_information.resource_id_base + 2
       /\ pixmap_id # 0 => pixmap_id = connection_information.resource_id_base + 3

\* the third id drawn from a server whose mask has the two bits
C12_ThreeIdsDrawn ==
  /\ last = "create_pixmap"
  /\ BitAnd(connection_information.resource_id_mask, 3) = 3
  /\ BitAnd(connection_information.resource_id_base, 3) = 0
  /\ pixmap_id = connection_information.resource_id_base + 3


(***************************************************************************)
(* The requests on the stream, read back from their bytes as the X11       *)
(* protocol lays them out: the opcode is byte 0, the length field the u16  *)
(* at offset 2, the resource ids the u32s from offset 4 on.                *)
(***************************************************************************)
\* the logged writes that start a request (the handshake's writes do not)
IsRequest(e) ==
  e.op = "write" /\ e.layout \notin {"", "HandshakeRequest"}

\* the resource ids a request names, by opcode: CreateGC 55, CreateWindow 1,
\* MapWindow 8, CreatePixmap 53, PutImage 72, CopyArea 62
RequestIds(bytes) ==
  CASE bytes[1] = 8 -> {U32At(bytes, 4)}
    [] bytes[1] = 62 -> {U32At(bytes, 4), U32At(bytes, 8), U32At(bytes, 12)}
    [] OTHER -> {U32At(bytes, 4), U32At(bytes, 8)}

\* the ids next_x11_id returns when chained from 0 on the handshake's reply
ChainedIds(info) ==
  LET first == next_x11_id(0, info)
      second == next_x11_id(first, info)
  IN  {first, second, next_x11_id(second, info)}

\* C13 (as stated): every resource id in a request written to the stream is a
\* value next_x11_id returned, seeded from the handshake's ConnectionInformation.
C13_EveryIdAllocated ==
  \A i \in DOMAIN io :
    IsRequest(io[i])
      => RequestIds(Image(io[i])) \subseteq ChainedIds(connection_information)

\* C13 (amended): every such id is one next_x11_id returned, except the drawable
\* of create-graphics-context and the parent of create-window, which are the
\* root window id of the same ConnectionInformation.
C13_EveryIdAllocatedOrRoot ==
  \A i \in DOMAIN io :
    IsRequest(io[i]) =>
      LET bytes == Image(io[i])
      IN  IF bytes[1] \in {55, 1}
          THEN /\ U32At(bytes, 4) \in ChainedIds(connection_information)
               /\ U32At(bytes, 8) = connection_information.root_screen.id
          ELSE RequestIds(bytes) \subseteq ChainedIds(connection_information)

\* a copy-area of a render, naming the three allocated ids
C13_CopyAreaNamesAllocatedIds ==
  /\ last = "event_loop_frame"
  /\ io # <<>>
  /\ IsRequest(io[Len(io)])
  /\ Image(io[Len(io)])[1] = 62
  /\ RequestIds(Image(io[Len(io)])) = ChainedIds(connection_information)


\* an encoder was called on its own
EncoderCalled ==
  last \in {"call_x11_create_graphical_context", "call_x11_create_window",
            "call_x11_map_window", "call_x11_create_pixmap",
            "call_x11_put_image", "call_x11_copy_area"}

\* the bytes the logged writes put on the stream, together
RECURSIVE BytesWritten(_)
BytesWritten(ops) ==
  IF ops = <<>> THEN 0 ELSE Head(ops).size + BytesWritten(Tail(ops))

\* C14: for every request an encoder emits, put-image with an image of any
\* length included, 4 times the 16-bit length field (the u16 at offset 2 of
\* the request) is the number of bytes written for the request.
C14_LengthFieldCountsBytesWritten ==
  EncoderCalled
    => /\ io # <<>>
       /\ 4 * U16At(io[1].head, 2) = BytesWritten(io)

\* put-image of a 256 x 256 image of four bytes a pixel: the length field is 6
C14_LengthFieldTruncated ==
  /\ CalledAs("x11_put_image")
  /\ input.args[9] = 262144
  /\ BytesWritten(io) = 24 + 262144
  /\ U16At(io[1].head, 2) = 6


\* C15: for an image of len bytes, len in 1..8, x11_put_image emits the length
\* field 6 + roundUp4(len)/4 and writes 24 + roundUp4(len) bytes: the 24-byte
\* header, the len bytes of the image, then roundUp4(len) - len zero bytes.
C15_PutImageHeaderDataPadding ==
  (CalledAs("x11_put_image") /\ input.args[9] \in 1..8)
    => LET len == input.args[9]
           padded == 4 * ((len + 3) \div 4)
       IN  /\ Len(io) = 3
           /\ io[1].size = 24
           /\ io[1].head[1] = 72
           /\ U16At(io[1].head, 2) = 6 + padded \div 4
           /\ io[2].size = len /\ io[2].head = Payload(len)
           /\ io[3].size = padded - len
           /\ io[3].head = [i \in 1..(padded - len) |-> 0]
           /\ BytesWritten(io) = 24 + padded

\* an image of 5 bytes: 3 bytes of padding follow it
C15_FiveBytesPadded ==
  /\ CalledAs("x11_put_image")
  /\ input.args[9] = 5
  /\ io[3].head = <<0, 0, 0>>


(***************************************************************************)
(* round_up_4 on the whole range of u32.                                   *)
(***************************************************************************)
\* a <= b, and b - a where a <= b < a + 2^16
WordLeq(a, b) == a.hi < b.hi \/ (a.hi = b.hi /\ a.lo <= b.lo)
WordGap(a, b) == (b.hi - a.hi) * U16 + b.lo - a.lo

\* round_up_4 returned the least multiple of 4 not below its argument, and
\* returns that value for that value
RoundedUp4 ==
  LET n == input.args[1]
      r == calls[1].returned
  IN  /\ status = "returned"
      /\ r.lo % 4 = 0
      /\ WordLeq(n, r)
      /\ r.hi - n.hi \in {0, 1} /\ WordGap(n, r) < 4
      /\ n.lo % 4 = 0 => r = n
      /\ round_up_4_u32(r, overflow_checks) = [panic |-> "none", value |-> r]

\* C16 (as stated): for every 32-bit unsigned n, round_up_4(n) is a multiple of
\* 4, is not smaller than n, is smaller than n + 4, equals n when n is a
\* multiple of 4, and round_up_4(round_up_4(n)) = round_up_4(n).
C16_RoundUp4IsNextMultipleOf4 == CalledAs("round_up_4") => RoundedUp4

\* C16 (amended): the same, for every n up to 0xFFFFFFFC, the largest multiple
\* of 4 a u32 holds.
C16_RoundUp4BelowLastMultiple ==
  (CalledAs("round_up_4") /\ WordLeq(input.args[1], Word(65535, 65532)))
    => RoundedUp4

\* n = 0x8000FFFD: the result is 0x80010000
C16_RoundUp4Carried ==
  /\ CalledAs("round_up_4")
  /\ input.args[1] = Word(32768, 65533)
  /\ calls[1].returned = Word(32769, 0)


(***************************************************************************)
(* The credential file.                                                    *)
(***************************************************************************)
\* the record of that index is one the loader is to return: family bytes
\* 01 00, the scheme name MIT-MAGIC-COOKIE-1, 16 bytes of auth data
IsTokenRecord(k) ==
  /\ CredentialRecords[k].family = <<1, 0>>
  /\ CredentialRecords[k].name = AUTH_ENTRY_MAGIC_COOKIE
  /\ Len(CredentialRecords[k].data) = 16

\* the records the file holds whole
WholeRecords(file) ==
  IF file.cut = 0 THEN file.records
  ELSE SubSeq(file.records, 1, Len(file.records) - 1)

\* C17: load_x11_auth_token returns the 16 auth-data bytes of the first record,
\* in file order, whose family is 1, whose scheme name is MIT-MAGIC-COOKIE-1
\* and whose auth data has exactly 16 bytes, whatever records that do not match
\* precede it; when no record matches it fails with the not-found error.
C17_FirstTokenRecordReturned ==
  (CalledAs("load_x11_auth_token") /\ input.args[1].env = "ok")
    => LET whole == WholeRecords(input.args[1])
           hits == {i \in DOMAIN whole : IsTokenRecord(whole[i])}
           r == calls[1].returned
       IN  /\ status = "returned"
           /\ IF hits = {}
              THEN r.result = "NotFound"
              ELSE /\ r.result = "ok"
                   /\ Len(r.token) = 16
                   /\ r.token =
                        CredentialRecords[
                          whole[CHOOSE i \in hits : \A j \in hits : i <= j]].data

\* the token record found behind a record with 15 bytes of auth data
C17_TokenBehindShortRecord ==
  /\ CalledAs("load_x11_auth_token")
  /\ input.args[1] = [env |-> "ok", records |-> <<6, 1>>, cut |-> 0]
  /\ calls[1].returned = [result |-> "ok", token |-> [i \in 1..16 |-> 16 + i]]


(***************************************************************************)
(* Scene::render, in main and in the event loop.                           *)
(***************************************************************************)
\* the step called render: main's, or a frame's whose handler got to it
RenderStep ==
  /\ last \in {"scene_render", "event_loop_frame"}
  /\ calls # <<>>
  /\ calls[Len(calls)] = RenderCall

\* The writes of the step are copy-area requests (opcode 62), the i-th for the
\* cell of index i - 1: from the sprite of the kind the cell displays in the
\* pixmap to (column * ENTITIES_WIDTH, row * ENTITIES_HEIGHT) in the window.
\* There is one for every cell unless a write failed.
RenderedAsDisplayed ==
  LET w == WritesOf(io)
  IN  /\ Len(w) <= ENTITIES_COLUMN_COUNT * ENTITIES_ROW_COUNT
      /\ (\A i \in 1..Len(w) : w[i].ok)
           => Len(w) = ENTITIES_COLUMN_COUNT * ENTITIES_ROW_COUNT
      /\ \A i \in 1..Len(w) :
           LET bytes == Image(w[i])
               kind == scene.displayed_entities[i - 1]
           IN  /\ bytes[1] = 62
               /\ U32At(bytes, 4) = pixmap_id
               /\ U32At(bytes, 8) = window_id
               /\ U32At(bytes, 12) = gc_id
               /\ kind \in DOMAIN get_asset_coordinates
               /\ U16At(bytes, 16) = get_asset_coordinates[kind].x
               /\ U16At(bytes, 18) = get_asset_coordinates[kind].y
               /\ U16At(bytes, 20) = ((i - 1) % ENTITIES_COLUMN_COUNT) * ENTITIES_WIDTH
               /\ U16At(bytes, 22) = ((i - 1) \div ENTITIES_COLUMN_COUNT) * ENTITIES_HEIGHT
               /\ U16At(bytes, 24) = ENTITIES_WIDTH
               /\ U16At(bytes, 26) = ENTITIES_HEIGHT

\* C18: each call of Scene::render writes one copy-area request per grid cell
\* (every kind has a sprite), in increasing cell-index order, with source the
\* sprite pixmap, destination the window and destination coordinates
\* (column * ENTITIES_WIDTH, row * ENTITIES_HEIGHT), and does not change the
\* board: a step that only renders leaves the scene as it was.
C18_RenderCopiesEveryCell ==
  /\ [](RenderStep
          => /\ RenderedAsDisplayed
             /\ \A k \in EntityKind : k \in DOMAIN get_asset_coordinates)
  /\ [][ (last' \in {"scene_render", "event_loop_frame"}
           /\ calls' = <<RenderCall>>) => scene' = scene ]_vars

\* a whole render of a board that shows a flag and an uncovered cell
C18_RenderedMixedBoard ==
  /\ RenderStep
  /\ Len(WritesOf(io)) = ENTITIES_COLUMN_COUNT * ENTITIES_ROW_COUNT
  /\ \A i \in 1..Len(io) : io[i].ok
  /\ \E i \in 0..(CellCount - 1) : scene.displayed_entities[i] = "Flagged"
  /\ \E i \in 0..(CellCount - 1) : scene.displayed_entities[i] = "Uncovered1"


(***************************************************************************)
(* Scene::reset, in main and on the release of Return.                     *)
(***************************************************************************)
\* the step called reset
ResetStep ==
  \/ last = "scene_reset"
  \/ (FrameStep /\ \E i \in 1..Len(calls) : calls[i] = ResetCall)

\* C19: after Scene::reset, from any reachable state, every cell displays
\* Covered (no flag and no uncovered cell of the previous game remains) and the
\* scene state is no longer the Won or Lost of the previous game.
C19_ResetStartsNewGame ==
  ResetStep
    => /\ \A i \in 0..(CellCount - 1) : scene.displayed_entities[i] = "Covered"
       /\ scene.state \notin {"Won", "Lost"}

\* Return released after a lost game: the board is covered, the state is Lost
C19_ResetKeepsLost ==
  /\ FrameStep
  /\ calls = <<ResetCall, RenderCall>>
  /\ \A i \in 0..(CellCount - 1) : scene.displayed_entities[i] = "Covered"
  /\ scene.state = "Lost"


(***************************************************************************)
(* The order of main's requests.                                           *)
(***************************************************************************)
\* the statement of main that comes right before each statement
MainBefore ==
  [l \in {"load_x11_auth_token", "connect_x11_socket", "x11_handshake",
          "create_gc", "create_window", "map_window", "load_sprite",
          "create_pixmap", "put_image", "scene_new", "scene_reset",
          "scene_render", "event_loop_frame", "event_loop_eof",
          "event_loop_error"} |->
     CASE l = "load_x11_auth_token" -> {"start"}
       [] l = "connect_x11_socket" -> {"load_x11_auth_token"}
       [] l = "x11_handshake" -> {"connect_x11_socket"}
       [] l = "create_gc" -> {"x11_handshake"}
       [] l = "create_window" -> {"create_gc"}
       [] l = "map_window" -> {"create_window"}
       [] l = "load_sprite" -> {"map_window"}
       [] l = "create_pixmap" -> {"load_sprite"}
       [] l = "put_image" -> {"create_pixmap"}
       [] l = "scene_new" -> {"put_image"}
       [] l = "scene_reset" -> {"scene_new"}
       [] l = "scene_render" -> {"scene_reset"}
       [] OTHER -> {"scene_render", "event_loop_frame"}]

\* what each statement of main puts on the stream, or takes from it: the
\* opcode of the one request it writes and the ids the request names
OneRequest(opcode, ids) ==
  /\ io # <<>>
  /\ \A i \in DOMAIN io : io[i].op = "write"
  /\ IsRequest(io[1])
  /\ Image(io[1])[1] = opcode
  /\ \A k \in DOMAIN ids : U32At(Image(io[1]), 4 * k) = ids[k]
  /\ \A i \in 2..Len(io) : io[i].layout = ""

MainStepWrites ==
  CASE last \in {"start", "load_x11_auth_token", "connect_x11_socket",
                 "load_sprite", "scene_new", "scene_reset"} -> io = <<>>
    [] last = "x11_handshake" -> \A i \in DOMAIN io : ~IsRequest(io[i])
    [] last = "create_gc" ->
         OneRequest(55, <<gc_id, connection_information.root_screen.id>>)
    [] last = "create_window" ->
         OneRequest(1, <<window_id, connection_information.root_screen.id>>)
    [] last = "map_window" -> OneRequest(8, <<window_id>>)
    [] last = "create_pixmap" -> OneRequest(53, <<pixmap_id, window_id>>)
    [] last = "put_image" -> OneRequest(72, <<pixmap_id, gc_id>>)
    [] last = "scene_render" ->
         /\ io # <<>>
         /\ \A i \in DOMAIN io : IsRequest(io[i]) /\ io[i].layout = "CopyAreaRequest"
    [] OTHER -> io # <<>> /\ io[1].op = "read"

\* C20: in main no request is written before x11_handshake has returned, and
\* the requests follow one another as create-GC, create-window, map-window,
\* create-pixmap (on the window), put-image (into the pixmap, with the GC), the
\* copy-areas of the first render, and only then the first read of an event:
\* every id is created before a later request names it.
C20_RequestsInMainOrder ==
  /\ [](MainStepWrites)
  /\ [][ /\ last \in MainBefore[last']
         /\ status = "running"
         /\ last' = "create_gc" => results.x11_handshake = "ok"
         /\ last' = "create_gc" => (gc_id = 0 /\ gc_id' # 0)
         /\ last' = "create_window" => (window_id = 0 /\ window_id' # 0)
         /\ last' = "create_pixmap" => (pixmap_id = 0 /\ pixmap_id' # 0) ]_vars

\* the first event read, after the whole of main's start
C20_FirstEventRead ==
  /\ last = "event_loop_frame"
  /\ io # <<>> /\ io[1].op = "read" /\ io[1].ok
  /\ gc_id # 0 /\ window_id # 0 /\ pixmap_id # 0
  /\ results.x11_handshake = "ok"


(***************************************************************************)
(* Clicks: the cell a ButtonRelease frame names.                           *)
(***************************************************************************)
\* the frame just read is a ButtonRelease
ButtonReleased == FrameStep /\ input.frame[1] = 5

\* C21: for every pair of 16-bit coordinates a ButtonRelease frame carries and
\* every button, the index locate_entity_by_coordinate computes is smaller
\* than ENTITIES_COLUMN_COUNT * ENTITIES_ROW_COUNT, its column is smaller than
\* ENTITIES_COLUMN_COUNT, and the loop reaches no index-out-of-range and no
\* arithmetic-overflow abort.
C21_ClicksStayInsideBoard ==
  ButtonReleased
    => LET loc == locate_entity_by_coordinate(U16At(input.frame, 24),
                                              U16At(input.frame, 26),
                                              overflow_checks)
       IN  /\ status \notin {"panic_index", "panic_overflow"}
           /\ loc.panic = "none"
           /\ loc.idx < ENTITIES_COLUMN_COUNT * ENTITIES_ROW_COUNT
           /\ loc.column < ENTITIES_COLUMN_COUNT

\* a left release one column right of the board, in the first row: no abort,
\* and the first cell of the second row is the one uncovered
C21_ReleaseRightOfBoardHitsNextRow ==
  /\ ButtonReleased
  /\ input.frame[2] = 1
  /\ U16At(input.frame, 24) = ENTITIES_COLUMN_COUNT * ENTITIES_WIDTH
  /\ U16At(input.frame, 26) = 0
  /\ status = "running"
  /\ scene.displayed_entities[ENTITIES_COLUMN_COUNT] \notin {"Covered", "Flagged"}
  /\ scene.displayed_entities[0] = "Covered"


(***************************************************************************)
(* The board after resets and clicks inside it.                            *)
(***************************************************************************)
Cells == 0..(CellCount - 1)

\* two different cells that touch, by an edge or by a corner
Adjacent(i, j) ==
  /\ i # j
  /\ (i \div ENTITIES_COLUMN_COUNT) - (j \div ENTITIES_COLUMN_COUNT) \in -1..1
  /\ (i % ENTITIES_COLUMN_COUNT) - (j % ENTITIES_COLUMN_COUNT) \in -1..1

MinesAround(mines, i) == Cardinality({j \in Cells : Adjacent(i, j) /\ mines[j]})

RECURSIVE ReachedFrom(_, _, _)
\* the least set that holds `reached` and, with a cell that has no mine around
\* it, every Covered cell without a mine next to that cell
ReachedFrom(reached, shown, mines) ==
  LET more == { n \in Cells :
                  /\ shown[n] = "Covered" /\ ~mines[n]
                  /\ \E c \in reached :
                       MinesAround(mines, c) = 0 /\ Adjacent(c, n) }
  IN  IF more \subseteq reached THEN reached
      ELSE ReachedFrom(reached \cup more, shown, mines)

\* the cells a flood fill started on cell `start` has to uncover
Reachable(start, shown, mines) ==
  IF shown[start] = "Covered" /\ ~mines[start]
  THEN ReachedFrom({start}, shown, mines)
  ELSE {}

\* uncover_cells_flood_fill started on cell `start` of the board of the scene
FloodFrom(start) ==
  uncover_cells_flood_fill(
    [displayed_entities |-> scene.displayed_entities, panic |-> "none", calls |-> 0],
    scene.mines, idx_to_row_column(start).row, idx_to_row_column(start).column,
    overflow_checks)

Uncovered == { UncoveredKinds[k] : k \in DOMAIN UncoveredKinds }

Changed(before, after) == { i \in Cells : before[i] # after[i] }

\* the flood fill returns after a bounded number of calls, and changes the
\* reachable cells, all to an uncovered kind, and nothing else
FloodFillsReachable(start) ==
  LET flooded == FloodFrom(start)
      reachable == Reachable(start, scene.displayed_entities, scene.mines)
      changed == Changed(scene.displayed_entities, flooded.displayed_entities)
  IN  /\ flooded.panic = "none"
      /\ flooded.calls <= 1 + 8 * Cardinality(changed)
      /\ changed = reachable
      /\ \A i \in changed :
           /\ ~scene.mines[i]
           /\ scene.displayed_entities[i] # "Flagged"
           /\ flooded.displayed_entities[i] \in Uncovered

LeftClickOn(i) ==
  /\ last' = "game_click"
  /\ input'.button = 1
  /\ locate_entity_by_coordinate(input'.x, input'.y, overflow_checks).idx = i

SetsWon ==
  /\ last' = "game_click"
  /\ status' = "running"
  /\ scene'.state = "Won"
  /\ \E i \in Cells :
       /\ LeftClickOn(i)
       /\ scene.displayed_entities[i] # "Flagged"
       /\ ~scene.mines[i]
  /\ count_remaining_goals(scene'.displayed_entities, scene.mines) = 0

NonMinesUncovered ==
  \A i \in Cells : ~scene.mines[i] => scene.displayed_entities[i] \in Uncovered

MinesIdle ==
  \A i \in Cells : scene.mines[i] => scene.displayed_entities[i] = "MineIdle"

\* C24: whenever on_cell_clicked sets the state to Won, every cell without a
\* mine displays an Uncovered kind (none is still Covered or Flagged) and
\* every mine displays MineIdle.
C24_WonBoardFullyUncovered ==
  [][SetsWon => (NonMinesUncovered' /\ MinesIdle')]_vars

\* a game won by this click with a cell without a mine still Flagged
C24_WonWithFlaggedCell ==
  /\ last = "game_click"
  /\ input.button = 1
  /\ scene.state = "Won"
  /\ MinesIdle
  /\ count_remaining_goals(scene.displayed_entities, scene.mines) = 0
  /\ \E i, j \in Cells :
       /\ locate_entity_by_coordinate(input.x, input.y, overflow_checks).idx = i
       /\ scene.displayed_entities[i] \in Uncovered
       /\ ~scene.mines[j] /\ scene.displayed_entities[j] = "Flagged"


\* the game has ended and reset has not been called since: reset covers every
\* cell, and a mine is displayed only by the click that ends a game
GameOver ==
  /\ scene.state \in {"Won", "Lost"}
  /\ \E i \in Cells : scene.displayed_entities[i] \in {"MineExploded", "MineIdle"}

\* C25: once the state is Won or Lost, it keeps that value and the displayed
\* board stays unchanged under every further on_cell_clicked call (any cell,
\* any button) until reset is called; Won is never followed by Lost.
C25_GameOverIsFinal ==
  [][(GameOver /\ last' = "game_click")
       => /\ scene'.state = scene.state
          /\ scene'.displayed_entities = scene.displayed_entities]_vars

\* a right click on a lost board has taken a flag off: the cell is Covered
\* next to the exploded mines
C25_UnflaggedAfterLost ==
  /\ last = "game_click"
  /\ input.button = 3
  /\ GameOver
  /\ scene.state = "Lost"
  /\ scene.displayed_entities[
       locate_entity_by_coordinate(input.x, input.y, overflow_checks).idx] = "Covered"


(***************************************************************************)
(* The end of the stream inside a frame.                                   *)
(***************************************************************************)
\* the loop has just been told that the stream ended after `input.partial`
EofStep == last = "event_loop_eof"

\* C26: when the stream ends in the middle of a frame (1 to 31 bytes arrive),
\* wait_for_x11_events dispatches nothing for the partial frame, whatever its
\* first byte, leaves the board unchanged and returns Ok(()), exactly as for
\* an end of the stream on a frame boundary.
C26_PartialFrameEndsLoop ==
  /\ [](EofStep
          => /\ calls = <<>>
             /\ Len(io) = 1
             /\ io[1].err = "UnexpectedEof"
             /\ results.wait_for_x11_events = "ok"
             /\ pc = "done"
             /\ status = "exit_0")
  /\ [][last' = "event_loop_eof" => scene' = scene]_vars

\* the stream ended one byte short of a whole ButtonRelease frame
C26_ReleaseCutShort ==
  /\ EofStep
  /\ Len(input.partial) = size_of(GenericEvent) - 1
  /\ input.partial[1] = EVENT_BUTTON_RELEASE
  /\ status = "exit_0"

============================================================================
